---------------------------- MODULE Spec2Model ----------------------------
(***************************************************************************)
(* A model of the argument-parsing library in src/src/args.c: the string   *)
(* hash map (Map), the dynamic array (Vec), the Option container, the      *)
(* ArgStream cursor and the recursive ap_parse_stream.                     *)
(*                                                                         *)
(* C strings are sequences of one-character strings, so that a name can be *)
(* split at spaces, a token can be inspected character by character and    *)
(* the FNV-1a hash can be computed over the bytes.  Pointers are natural    *)
(* numbers, 0 being NULL.  A uint32_t is a pair <<hi, lo>> of 16-bit halves.*)
(***************************************************************************)
EXTENDS Integers, Sequences, FiniteSets, TLC

(***************************************************************************)
(* Bounds of the model.                                                    *)
(***************************************************************************)
\* number of distinct keys the map specification draws from
NumKeys == 8
\* the longest argument list handed to ap_parse_array
MaxArgs == 3

(***************************************************************************)
(* Characters and bytes.                                                   *)
(***************************************************************************)
Lower ==
  <<"a","b","c","d","e","f","g","h","i","j","k","l","m",
    "n","o","p","q","r","s","t","u","v","w","x","y","z">>

Digits == <<"0","1","2","3","4","5","6","7","8","9">>

\* the byte value of each character, (uint8_t)string[i]
ByteTable ==
  [i \in 1..26 |-> 96 + i] @@ [i \in 27..36 |-> 21 + i]

CharIndex ==
  [c \in {Lower[i] : i \in 1..26} |-> CHOOSE i \in 1..26 : Lower[i] = c]
  @@ [c \in {Digits[i] : i \in 1..10} |-> 26 + (CHOOSE i \in 1..10 : Digits[i] = c)]

Byte(c) ==
  IF c \in DOMAIN CharIndex THEN ByteTable[CharIndex[c]]
  ELSE IF c = " " THEN 32
  ELSE IF c = "-" THEN 45
  ELSE IF c = "=" THEN 61
  ELSE IF c = "+" THEN 43
  ELSE 63

\* isdigit()
IsDigit(c) == \E i \in 1..10 : Digits[i] = c

RECURSIVE BitXor(_, _)
BitXor(a, b) ==
  IF a = 0 THEN b
  ELSE IF b = 0 THEN a
  ELSE ((a + b) % 2) + 2 * BitXor(a \div 2, b \div 2)

RECURSIVE BitAnd(_, _)
BitAnd(a, b) ==
  IF a = 0 \/ b = 0 THEN 0
  ELSE ((a % 2) * (b % 2)) + 2 * BitAnd(a \div 2, b \div 2)

(***************************************************************************)
(* str_hash: FNV-1a over the bytes, in 32-bit unsigned arithmetic.         *)
(* 2166136261 = 0x811C9DC5 and 16777619 = 2^24 + 403.                      *)
(***************************************************************************)
FnvOffset == <<33052, 40389>>

\* hash ^= byte
HashXor(h, b) == <<h[1], (h[2] \div 256) * 256 + BitXor(h[2] % 256, b)>>

\* hash *= 16777619, modulo 2^32
HashMul(h) ==
  LET low   == h[2] * 403
      carry == low \div 65536
  IN  <<(h[1] * 403 + carry + (h[2] % 256) * 256) % 65536, low % 65536>>

RECURSIVE HashFrom(_, _, _)
HashFrom(string, i, hash) ==
  IF i > Len(string) THEN hash
  ELSE HashFrom(string, i + 1, HashMul(HashXor(hash, Byte(string[i]))))

str_hash(string) == HashFrom(string, 1, FnvOffset)

(***************************************************************************)
(* Map: a linear-probing hash map with string keys and pointer values.     *)
(* entries[i + 1] is the C slot entries[i].                                *)
(***************************************************************************)
NullKey == <<"NULL">>

EmptyEntry == [key |-> NullKey, value |-> 0, key_hash |-> <<0, 0>>]

map_new == [count |-> 0, capacity |-> 0, max_load_threshold |-> 0,
            entries |-> << >>]

\* key_hash & (capacity - 1); the capacity stays below 2^16, so only the
\* low half of the hash takes part
SlotMask(m, x) == BitAnd(x, m.capacity - 1)

\* mutant: keys are told apart by their hash alone
RECURSIVE ProbeFrom_HashOnly(_, _, _, _)
ProbeFrom_HashOnly(m, key, key_hash, index) ==
  LET entry == m.entries[index + 1]
  IN  IF entry.key = NullKey THEN index
      ELSE IF key_hash = entry.key_hash THEN index
      ELSE ProbeFrom_HashOnly(m, key, key_hash, SlotMask(m, index + 1))

\* the loop of map_find, from the slot at index
RECURSIVE ProbeFrom(_, _, _, _)
ProbeFrom(m, key, key_hash, index) ==
  LET entry == m.entries[index + 1]
  IN  IF entry.key = NullKey THEN index
      ELSE IF key_hash = entry.key_hash /\ key = entry.key THEN index
      ELSE ProbeFrom(m, key, key_hash, SlotMask(m, index + 1))

\* the index of the slot map_find returns a pointer to
map_find(m, key, key_hash) ==
  ProbeFrom(m, key, key_hash, SlotMask(m, key_hash[2]))

RECURSIVE Rehash(_, _, _)
Rehash(m, old_entries, i) ==
  IF i > Len(old_entries) THEN m
  ELSE LET src == old_entries[i]
       IN  IF src.key = NullKey THEN Rehash(m, old_entries, i + 1)
           ELSE LET dst == map_find(m, src.key, src.key_hash)
                IN  Rehash([m EXCEPT !.entries[dst + 1] = src,
                                     !.count = @ + 1],
                           old_entries, i + 1)

\* mutant: the table grows by eight slots
map_grow_PlusEight(m) ==
  LET new_capacity == m.capacity + 8
      fresh == [count |-> 0,
                capacity |-> new_capacity,
                max_load_threshold |-> new_capacity \div 2,
                entries |-> [i \in 1..new_capacity |-> EmptyEntry]]
  IN  Rehash(fresh, m.entries, 1)

\* mutant: the threshold is three quarters of the capacity
map_grow_ThreeQuarters(m) ==
  LET new_capacity == IF m.capacity < 8 THEN 8 ELSE m.capacity * 2
      fresh == [count |-> 0,
                capacity |-> new_capacity,
                max_load_threshold |-> (new_capacity * 3) \div 4,
                entries |-> [i \in 1..new_capacity |-> EmptyEntry]]
  IN  Rehash(fresh, m.entries, 1)

map_grow(m) ==
  LET new_capacity == IF m.capacity < 8 THEN 8 ELSE m.capacity * 2
      fresh == [count |-> 0,
                capacity |-> new_capacity,
                max_load_threshold |-> new_capacity \div 2,
                entries |-> [i \in 1..new_capacity |-> EmptyEntry]]
  IN  Rehash(fresh, m.entries, 1)

\* what map_get makes of the entry map_find returned: <<found, value>>
Looked(entry) ==
  IF entry.key = NullKey THEN <<FALSE, 0>> ELSE <<TRUE, entry.value>>

\* map_get: <<found, value>>
map_get(m, key) ==
  IF m.count = 0 THEN <<FALSE, 0>>
  ELSE Looked(m.entries[map_find(m, key, str_hash(key)) + 1])

\* mutant: a key that is in the map keeps its value
Store_KeepFirst(g, key, key_hash, value, index) ==
  IF g.entries[index + 1].key = NullKey
    THEN [g EXCEPT !.count = @ + 1,
                   !.entries[index + 1] =
                      [key |-> key, value |-> value, key_hash |-> key_hash]]
    ELSE g

\* the part of map_set after map_find returned the slot at index
Store(g, key, key_hash, value, index) ==
  IF g.entries[index + 1].key = NullKey
    THEN [g EXCEPT !.count = @ + 1,
                   !.entries[index + 1] =
                      [key |-> key, value |-> value, key_hash |-> key_hash]]
    ELSE [g EXCEPT !.entries[index + 1].value = value]

\* the part of map_set after the map was grown if it had to be
Put(g, key, key_hash, value) ==
  Store(g, key, key_hash, value, map_find(g, key, key_hash))

map_set(m, key, value) ==
  Put(IF m.count = m.max_load_threshold THEN map_grow(m) ELSE m,
      key, str_hash(key), value)

\* strtok_r(keys, " "): the maximal runs of characters other than the space
RECURSIVE SplitWords(_, _, _)
SplitWords(keys, i, word) ==
  IF i > Len(keys)
    THEN IF word = << >> THEN << >> ELSE <<word>>
  ELSE IF keys[i] = " "
    THEN (IF word = << >> THEN << >> ELSE <<word>>)
         \o SplitWords(keys, i + 1, << >>)
  ELSE SplitWords(keys, i + 1, Append(word, keys[i]))

RECURSIVE SetAll(_, _, _, _)
SetAll(m, words, i, value) ==
  IF i > Len(words) THEN m
  ELSE SetAll(map_set(m, words[i], value), words, i + 1, value)

\* mutant: only the first word of the name is bound
map_set_splitkey_FirstOnly(m, keys, value) ==
  SetAll(m, SubSeq(SplitWords(keys, 1, << >>), 1, 1), 1, value)

map_set_splitkey(m, keys, value) ==
  SetAll(m, SplitWords(keys, 1, << >>), 1, value)

(***************************************************************************)
(* Small helpers on C strings.                                             *)
(***************************************************************************)
\* strchr / strstr for a one-character needle: the first position, 0 if none
RECURSIVE FindChar(_, _, _)
FindChar(string, c, i) ==
  IF i > Len(string) THEN 0
  ELSE IF string[i] = c THEN i
  ELSE FindChar(string, c, i + 1)

\* arg + n
Skip(string, n) == SubSeq(string, n + 1, Len(string))

\* strncmp(arg, "--", 2) == 0
StartsWithDashDash(arg) == Len(arg) >= 2 /\ arg[1] = "-" /\ arg[2] = "-"

(***************************************************************************)
(* try_str_to_int: strtol(string, &endptr, 0) followed by the range and    *)
(* the end-of-string checks.  The magnitude is accumulated up to INT_MAX;  *)
(* "min" records a magnitude of exactly INT_MAX + 1 and "over" any larger  *)
(* one, both of which a long can hold or strtol reports as ERANGE.         *)
(***************************************************************************)
INT_MAX == 2147483647

HexLetters == <<"a","b","c","d","e","f">>

\* the value of a digit character in the base, -1 if it is none
DigitValue(c, base) ==
  LET v == IF IsDigit(c) THEN Byte(c) - 48
           ELSE IF \E i \in 1..6 : HexLetters[i] = c
             THEN 9 + (CHOOSE i \in 1..6 : HexLetters[i] = c)
           ELSE -1
  IN  IF v >= 0 /\ v < base THEN v ELSE -1

RECURSIVE SkipSpace(_, _)
SkipSpace(string, i) ==
  IF i <= Len(string) /\ string[i] = " " THEN SkipSpace(string, i + 1) ELSE i

\* the magnitude acc with the digit d appended in the base
Shift(acc, base, d, q, r) ==
  IF ~acc.min /\ ~acc.over /\ (acc.mag < q \/ (acc.mag = q /\ d <= r))
    THEN [acc EXCEPT !.mag = acc.mag * base + d, !.any = TRUE]
  ELSE IF ~acc.min /\ ~acc.over /\
          (\/ (acc.mag = q /\ d = r + 1)
           \/ (acc.mag = q + 1 /\ d = 0 /\ r = base - 1))
    THEN [acc EXCEPT !.min = TRUE, !.any = TRUE]
  ELSE [acc EXCEPT !.min = FALSE, !.over = TRUE, !.any = TRUE]

\* accumulate the digits from position i: [mag, min, over, end, any]
RECURSIVE Accumulate(_, _, _, _)
Accumulate(string, i, base, acc) ==
  IF i > Len(string) \/ DigitValue(string[i], base) < 0
    THEN [acc EXCEPT !.end = i]
  ELSE Accumulate(string, i + 1, base,
         Shift(acc, base, DigitValue(string[i], base),
               INT_MAX \div base, INT_MAX % base))

\* the digits are read from position s2 in the base
Converted(neg, acc) ==
  [neg  |-> neg,
   mag  |-> acc.mag,
   min  |-> acc.min,
   over |-> acc.over,
   end  |-> IF acc.any THEN acc.end ELSE 1]

Digits0(string, neg, s2, base) ==
  Converted(neg, Accumulate(string, s2, base,
     [mag |-> 0, min |-> FALSE, over |-> FALSE, end |-> s2, any |-> FALSE]))

\* the sign is read, the number starts at s1: "0x" and a hexadecimal digit
\* make it hexadecimal, another leading "0" octal
Based(string, neg, s1) ==
  IF /\ s1 + 2 <= Len(string)
     /\ string[s1] = "0"
     /\ string[s1 + 1] = "x"
     /\ DigitValue(string[s1 + 2], 16) >= 0
    THEN Digits0(string, neg, s1 + 2, 16)
  ELSE IF s1 <= Len(string) /\ string[s1] = "0"
    THEN Digits0(string, neg, s1, 8)
  ELSE Digits0(string, neg, s1, 10)

\* the white space is skipped, the sign may stand at s0
Signed(string, s0) ==
  IF s0 <= Len(string) /\ string[s0] = "-" THEN Based(string, TRUE, s0 + 1)
  ELSE IF s0 <= Len(string) /\ string[s0] = "+" THEN Based(string, FALSE, s0 + 1)
  ELSE Based(string, FALSE, s0)

\* strtol with base 0: [neg, mag, min, over, end]; end is the index of *endptr
strtol0(string) == Signed(string, SkipSpace(string, 1))

\* the checks of try_str_to_int on the result t of strtol
Checked(string, t) ==
  IF t.over \/ (t.min /\ ~t.neg)
    THEN [ok |-> FALSE, value |-> 0, error |-> "OutOfRange"]
  ELSE IF t.end <= Len(string)
    THEN [ok |-> FALSE, value |-> 0, error |-> "UnparsableNumber"]
  ELSE [ok |-> TRUE,
        value |-> IF t.min THEN (-INT_MAX) - 1
                  ELSE IF t.neg THEN -t.mag ELSE t.mag,
        error |-> ""]

\* [ok, value, error]
try_str_to_int(string) == Checked(string, strtol0(string))

(***************************************************************************)
(* Vec: a dynamic array of pointers.                                       *)
(***************************************************************************)
vec_new == [count |-> 0, capacity |-> 0, entries |-> << >>]

\* mutant: the new entry is put before the others
vec_add_Front(vec, entry) ==
  [count    |-> vec.count + 1,
   capacity |-> IF vec.count + 1 > vec.capacity
                  THEN (IF vec.capacity < 8 THEN 8 ELSE vec.capacity * 2)
                  ELSE vec.capacity,
   entries  |-> <<entry>> \o vec.entries]

vec_add(vec, entry) ==
  [count    |-> vec.count + 1,
   capacity |-> IF vec.count + 1 > vec.capacity
                  THEN (IF vec.capacity < 8 THEN 8 ELSE vec.capacity * 2)
                  ELSE vec.capacity,
   entries  |-> Append(vec.entries, entry)]

(***************************************************************************)
(* Options.  A flag has no fallback; it is never read.                     *)
(***************************************************************************)
option_new(type, fallback) ==
  [type |-> type, count |-> 0, capacity |-> 0, values |-> << >>,
   fallback |-> fallback]

option_new_flag == option_new("OPT_FLAG", << >>)
option_new_str(fallback) == option_new("OPT_STR", fallback)

\* mutant: the fallback of an integer option is dropped
option_new_int_Zero(fallback) == option_new("OPT_INT", 0)

option_new_int(fallback) == option_new("OPT_INT", fallback)

option_append_value(opt, value) ==
  [opt EXCEPT
     !.capacity = IF opt.count + 1 > opt.capacity
                    THEN (IF opt.capacity < 4 THEN 4 ELSE opt.capacity * 2)
                    ELSE opt.capacity,
     !.values = Append(opt.values, value),
     !.count = @ + 1]

\* the value t of try_str_to_int is appended unless err() was called
AppendInt(opt, t) ==
  IF t.ok
    THEN [ok |-> TRUE, opt |-> option_append_value(opt, t.value), error |-> ""]
    ELSE [ok |-> FALSE, opt |-> opt, error |-> t.error]

\* [ok, opt, error]
option_try_set(opt, arg) ==
  IF opt.type = "OPT_STR"
    THEN [ok |-> TRUE, opt |-> option_append_value(opt, arg), error |-> ""]
  ELSE IF opt.type = "OPT_INT"
    THEN AppendInt(opt, try_str_to_int(arg))
  ELSE [ok |-> TRUE, opt |-> opt, error |-> ""]

\* mutant: the first value is kept as the current one
option_get_First(opt) ==
  IF opt.count > 0 THEN opt.values[1] ELSE opt.fallback

\* option_get_str and option_get_int: the last value, or the fallback
option_get(opt) ==
  IF opt.count > 0 THEN opt.values[opt.count] ELSE opt.fallback

\* option_get_str_list and option_get_int_list: NULL for no value, else a copy
option_get_list(opt) ==
  IF opt.count = 0 THEN << >> ELSE [i \in 1..opt.count |-> opt.values[i]]

(***************************************************************************)
(* ArgStream.                                                              *)
(***************************************************************************)
argstream_new(count, args) == [count |-> count, index |-> 0, args |-> args]

argstream_has_next(stream) == stream.index < stream.count

\* the string argstream_next returns; the index then moves on
argstream_next(stream) == stream.args[stream.index + 1]

(***************************************************************************)
(* ArgParser.  The machine state st holds the heap of ArgParser structs    *)
(* (parsers, the pointer p being the index), the heap of Option structs    *)
(* (options), the ArgStream, the call stack of ap_parse_stream and how the *)
(* process stands: "setup", "parsing", "returned" (ap_parse_array came     *)
(* back), "exit0" (exit(0)) or "exit1" (err).  log is a history of the     *)
(* calls of ap_parse_stream and of the callbacks.                          *)
(***************************************************************************)
NULL == 0

ap_new ==
  [helptext |-> NULL, version |-> NULL, callback |-> NULL,
   cmd_name |-> NullKey, cmd_parser |-> NULL, cmd_help |-> FALSE,
   option_vec |-> vec_new, option_map |-> map_new,
   command_vec |-> vec_new, command_map |-> map_new,
   positional_args |-> vec_new]

ap_helptext(st, p, helptext) == [st EXCEPT !.parsers[p].helptext = helptext]

ap_version(st, p, version) == [st EXCEPT !.parsers[p].version = version]

\* the common body of ap_flag, ap_str_opt and ap_int_opt
RegisterOption(st, p, name, opt) ==
  LET id == Len(st.options) + 1
  IN  [st EXCEPT
         !.options = Append(@, opt),
         !.parsers[p].option_vec = vec_add(@, id),
         !.parsers[p].option_map = map_set_splitkey(@, name, id)]

ap_flag(st, p, name) == RegisterOption(st, p, name, option_new_flag)

ap_str_opt(st, p, name, fallback) ==
  RegisterOption(st, p, name, option_new_str(fallback))

ap_int_opt(st, p, name, fallback) ==
  RegisterOption(st, p, name, option_new_int(fallback))

\* the new parser is the pointer Len(st.parsers) + 1
ap_cmd(st, p, name) ==
  LET cmd_parser == Len(st.parsers) + 1
  IN  [st EXCEPT
         !.parsers = Append([@ EXCEPT
                               ![p].cmd_help = TRUE,
                               ![p].command_vec = vec_add(@, cmd_parser),
                               ![p].command_map =
                                  map_set_splitkey(@, name, cmd_parser)],
                            ap_new)]

ap_callback(st, p, callback) == [st EXCEPT !.parsers[p].callback = callback]

\* mutant: the call switches the automatic help command on, whatever it is given
ap_cmd_help_Enable(st, p, enable) == [st EXCEPT !.parsers[p].cmd_help = TRUE]

ap_cmd_help(st, p, enable) == [st EXCEPT !.parsers[p].cmd_help = enable]

\* ap_get_opt: <<found, option pointer>>
ap_get_opt(st, p, name) == map_get(st.parsers[p].option_map, name)

ap_count(st, p, name) == st.options[ap_get_opt(st, p, name)[2]].count

ap_found(st, p, name) == ap_count(st, p, name) > 0

\* ap_str_value and ap_int_value
ap_value(st, p, name) == option_get(st.options[ap_get_opt(st, p, name)[2]])

\* ap_str_values and ap_int_values
ap_values(st, p, name) == option_get_list(st.options[ap_get_opt(st, p, name)[2]])

ap_has_args(st, p) == st.parsers[p].positional_args.count > 0

ap_count_args(st, p) == st.parsers[p].positional_args.count

ap_args(st, p) ==
  [i \in 1..ap_count_args(st, p) |-> st.parsers[p].positional_args.entries[i]]

ap_has_cmd(st, p) == st.parsers[p].cmd_name # NullKey

ap_cmd_name(st, p) == st.parsers[p].cmd_name

ap_cmd_parser(st, p) == st.parsers[p].cmd_parser

(***************************************************************************)
(* Parsing.                                                                *)
(***************************************************************************)
\* mutant: the error is reported and the parse goes on
err_Continue(st, kind) == [st EXCEPT !.error = kind]

\* err(): the process ends with status 1
err(st, kind) == [st EXCEPT !.status = "exit1", !.error = kind]

\* puts(text); exit(0)
exit0(st) == [st EXCEPT !.status = "exit0"]

Advance(st) == [st EXCEPT !.stream.index = @ + 1]

\* the result r of option_try_set goes to the option at pointer id
Assigned(st, id, r) ==
  IF r.ok THEN [st EXCEPT !.options[id] = r.opt] ELSE err(st, r.error)

\* option_try_set on the option at pointer id, err() on a failed conversion
TrySet(st, id, arg) == Assigned(st, id, option_try_set(st.options[id], arg))

AddPositional(st, p, arg) ==
  [st EXCEPT !.parsers[p].positional_args = vec_add(@, arg)]

\* mutant: an empty value is handed on like any other
EqualsFound_EmptyValue(st, value, got) ==
  IF ~got[1] \/ st.options[got[2]].type = "OPT_FLAG"
    THEN err(st, "UnrecognizedOption")
  ELSE TrySet(st, got[2], value)

\* the name was looked up: got is the result of map_get
EqualsFound(st, value, got) ==
  IF ~got[1] \/ st.options[got[2]].type = "OPT_FLAG"
    THEN err(st, "UnrecognizedOption")
  ELSE IF Len(value) = 0
    THEN err(st, "MissingValue")
  ELSE TrySet(st, got[2], value)

\* the '=' stands at position eq of arg
EqualsAt(st, p, arg, eq) ==
  EqualsFound(st, Skip(arg, eq),
              map_get(st.parsers[p].option_map, SubSeq(arg, 1, eq - 1)))

\* arg is the text after the dashes, with a '=' in it
ap_handle_equals_opt(st, p, arg) == EqualsAt(st, p, arg, FindChar(arg, "=", 1))

\* mutant: the value is taken from the stream but left in it
Matched_ValueUnread(st, id) ==
  IF st.options[id].type = "OPT_FLAG"
    THEN [st EXCEPT !.options[id].count = @ + 1]
  ELSE IF argstream_has_next(st.stream)
    THEN TrySet(st, id, argstream_next(st.stream))
  ELSE err(st, "MissingValue")

\* mutant: the value is fetched without asking argstream_has_next; past the
\* end of the arguments the fetch gives an empty string
Matched_Unchecked(st, id) ==
  IF st.options[id].type = "OPT_FLAG"
    THEN [st EXCEPT !.options[id].count = @ + 1]
  ELSE TrySet(Advance(st), id,
              IF argstream_has_next(st.stream) THEN argstream_next(st.stream)
              ELSE << >>)

\* a flag is counted, another option takes the next argument as its value
Matched(st, id) ==
  IF st.options[id].type = "OPT_FLAG"
    THEN [st EXCEPT !.options[id].count = @ + 1]
  ELSE IF argstream_has_next(st.stream)
    THEN TrySet(Advance(st), id, argstream_next(st.stream))
  ELSE err(st, "MissingValue")

LongFound(st, p, arg, got) ==
  IF got[1] THEN Matched(st, got[2])
  ELSE IF arg = <<"h","e","l","p">> /\ st.parsers[p].helptext # NULL
    THEN exit0(st)
  ELSE IF arg = <<"v","e","r","s","i","o","n">> /\ st.parsers[p].version # NULL
    THEN exit0(st)
  ELSE err(st, "UnrecognizedOption")

ap_handle_long_opt(st, p, arg) ==
  LongFound(st, p, arg, map_get(st.parsers[p].option_map, arg))

\* mutant: a character that is no option is an error, h and v included
ShortFound_NoShortcut(st, p, c, got) ==
  IF got[1] THEN Matched(st, got[2]) ELSE err(st, "UnrecognizedOption")

ShortFound(st, p, c, got) ==
  IF got[1] THEN Matched(st, got[2])
  ELSE IF c = "h" /\ st.parsers[p].helptext # NULL THEN exit0(st)
  ELSE IF c = "v" /\ st.parsers[p].version # NULL THEN exit0(st)
  ELSE err(st, "UnrecognizedOption")

\* one character of a short-form argument
ShortChar(st, p, c) ==
  ShortFound(st, p, c, map_get(st.parsers[p].option_map, <<c>>))

\* mutant: only the first character of the argument is looked up
ShortLoop_FirstOnly(st, p, arg, i) ==
  IF i > Len(arg) \/ st.status # "parsing" THEN st
  ELSE ShortChar(st, p, arg[i])

\* the loop of ap_handle_short_opt from character i; exit() ends it
RECURSIVE ShortLoop(_, _, _, _)
ShortLoop(st, p, arg, i) ==
  IF i > Len(arg) \/ st.status # "parsing" THEN st
  ELSE ShortLoop(ShortChar(st, p, arg[i]), p, arg, i + 1)

ap_handle_short_opt(st, p, arg) == ShortLoop(st, p, arg, 1)

\* mutant: the '--' branch takes one argument only and goes on parsing
Drain_Once(st, p) ==
  IF ~argstream_has_next(st.stream) THEN st
  ELSE AddPositional(Advance(st), p, argstream_next(st.stream))

\* the inner loop of the '--' branch
RECURSIVE Drain(_, _)
Drain(st, p) ==
  IF ~argstream_has_next(st.stream) THEN st
  ELSE Drain(AddPositional(Advance(st), p, argstream_next(st.stream)), p)

\* mutant: a command name is recognised at any position
IsCommand_AnyPosition(st, p, first, arg) ==
  map_get(st.parsers[p].command_map, arg)[1]

\* the command map is asked only for a first argument
IsCommand(st, p, first, arg) ==
  first /\ map_get(st.parsers[p].command_map, arg)[1]

\* mutant: a dash followed by a digit is read as a short option
Branch_NoDigit(st, p, first, arg) ==
  IF arg = <<"-","-">> THEN "separator"
  ELSE IF StartsWithDashDash(arg)
    THEN IF FindChar(arg, "=", 1) # 0 THEN "long_equals" ELSE "long"
  ELSE IF Len(arg) >= 1 /\ arg[1] = "-"
    THEN IF Len(arg) = 1 THEN "dash_positional"
         ELSE IF FindChar(arg, "=", 1) # 0 THEN "short_equals"
         ELSE "short"
  ELSE IF IsCommand(st, p, first, arg) THEN "command"
  ELSE IF first /\ st.parsers[p].cmd_help /\ arg = <<"h","e","l","p">>
    THEN "help"
  ELSE "positional"

\* the branch of the loop body of ap_parse_stream that the argument takes
Branch(st, p, first, arg) ==
  IF arg = <<"-","-">> THEN "separator"
  ELSE IF StartsWithDashDash(arg)
    THEN IF FindChar(arg, "=", 1) # 0 THEN "long_equals" ELSE "long"
  ELSE IF Len(arg) >= 1 /\ arg[1] = "-"
    THEN IF Len(arg) = 1 \/ IsDigit(arg[2]) THEN "dash_positional"
         ELSE IF FindChar(arg, "=", 1) # 0 THEN "short_equals"
         ELSE "short"
  ELSE IF IsCommand(st, p, first, arg) THEN "command"
  ELSE IF first /\ st.parsers[p].cmd_help /\ arg = <<"h","e","l","p">>
    THEN "help"
  ELSE "positional"

Top(st) == st.stack[Len(st.stack)]

\* mutant: is_first_arg is never reset
EndBody_NoReset(st) == st

\* is_first_arg = false, at the end of the loop body
EndBody(st) ==
  IF st.status = "parsing"
    THEN [st EXCEPT !.stack[Len(st.stack)].is_first_arg = FALSE]
    ELSE st

\* mutant: help takes any following argument for a command
AutoHelp_AnyName(st, p) ==
  IF argstream_has_next(st.stream)
    THEN exit0(Advance(st))
    ELSE err(st, "MissingHelpArgument")

\* the automatic 'help' command
AutoHelp(st, p) ==
  IF argstream_has_next(st.stream)
    THEN IF map_get(st.parsers[p].command_map, argstream_next(st.stream))[1]
           THEN exit0(Advance(st))
           ELSE err(Advance(st), "UnrecognizedCommand")
    ELSE err(st, "MissingHelpArgument")

\* mutant: the callback is called before the command's parser runs, too
Enter_CallbackFirst(st, p, arg, cmd_parser) ==
  [st EXCEPT
     !.parsers[p].cmd_name = arg,
     !.parsers[p].cmd_parser = cmd_parser,
     !.stack = Append([@ EXCEPT ![Len(@)].arg = arg,
                                ![Len(@)].cmd_parser = cmd_parser],
                      [parser |-> cmd_parser, is_first_arg |-> TRUE,
                       arg |-> NullKey, cmd_parser |-> NULL]),
     !.log = @ \o (IF st.parsers[cmd_parser].callback # NULL
                     THEN <<[ev |-> "callback", parser |-> cmd_parser,
                             name |-> arg, index |-> st.stream.index]>>
                     ELSE << >>)
               \o <<[ev |-> "enter", parser |-> cmd_parser,
                     name |-> arg, index |-> st.stream.index]>>]

\* mutant: the matched name is stored, the matched parser is not
Enter_NameOnly(st, p, arg, cmd_parser) ==
  [st EXCEPT
     !.parsers[p].cmd_name = arg,
     !.stack = Append([@ EXCEPT ![Len(@)].arg = arg,
                                ![Len(@)].cmd_parser = cmd_parser],
                      [parser |-> cmd_parser, is_first_arg |-> TRUE,
                       arg |-> NullKey, cmd_parser |-> NULL]),
     !.log = Append(@, [ev |-> "enter", parser |-> cmd_parser,
                        name |-> arg, index |-> st.stream.index])]

\* the call of ap_parse_stream on the parser of the command
Enter(st, p, arg, cmd_parser) ==
  [st EXCEPT
     !.parsers[p].cmd_name = arg,
     !.parsers[p].cmd_parser = cmd_parser,
     !.stack = Append([@ EXCEPT ![Len(@)].arg = arg,
                                ![Len(@)].cmd_parser = cmd_parser],
                      [parser |-> cmd_parser, is_first_arg |-> TRUE,
                       arg |-> NullKey, cmd_parser |-> NULL]),
     !.log = Append(@, [ev |-> "enter", parser |-> cmd_parser,
                        name |-> arg, index |-> st.stream.index])]

\* a registered command
EnterCommand(st, p, arg) ==
  Enter(st, p, arg, map_get(st.parsers[p].command_map, arg)[2])

\* the loop body after argstream_next returned arg, in the branch b
Taken(st, p, arg, b) ==
  IF b = "command" THEN EnterCommand(st, p, arg)
  ELSE EndBody(
    CASE b = "separator"       -> Drain(st, p)
      [] b = "long_equals"     -> ap_handle_equals_opt(st, p, Skip(arg, 2))
      [] b = "long"            -> ap_handle_long_opt(st, p, Skip(arg, 2))
      [] b = "dash_positional" -> AddPositional(st, p, arg)
      [] b = "short_equals"    -> ap_handle_equals_opt(st, p, Skip(arg, 1))
      [] b = "short"           -> ap_handle_short_opt(st, p, Skip(arg, 1))
      [] b = "help"            -> AutoHelp(st, p)
      [] OTHER                 -> AddPositional(st, p, arg))

\* the branch the running call takes for the next argument
NextBranch(st) ==
  Branch(st, Top(st).parser, Top(st).is_first_arg, argstream_next(st.stream))

\* mutant: the argument is looked at and left in the stream
Body_Peek(st) ==
  Taken(st, Top(st).parser, argstream_next(st.stream), NextBranch(st))

\* one pass through the loop body of ap_parse_stream for the running call:
\* st.stream has a next argument
Body(st) ==
  Taken(Advance(st), Top(st).parser, argstream_next(st.stream), NextBranch(st))

\* the callback of the command is called if there is one
Called(st, cmd_parser, arg) ==
  IF st.parsers[cmd_parser].callback # NULL
    THEN [st EXCEPT !.log =
            Append(@, [ev |-> "callback", parser |-> cmd_parser,
                       name |-> arg, index |-> st.stream.index])]
    ELSE st

\* mutant: the caller forgets the callback
Pop_NoCallback(st, caller) ==
  EndBody([st EXCEPT !.stack = SubSeq(@, 1, Len(@) - 1)])

\* the running call is popped; caller is the frame below it
Pop(st, caller) ==
  EndBody(Called([st EXCEPT !.stack = SubSeq(@, 1, Len(@) - 1)],
                 caller.cmd_parser, caller.arg))

\* the loop of the running call is over: it returns.  The caller, if it is
\* ap_parse_stream, calls the callback of the command and ends its loop body;
\* if it is ap_parse_array, parsing is done.
Return(st) ==
  IF Len(st.stack) = 1
    THEN [st EXCEPT !.stack = << >>, !.status = "returned"]
    ELSE Pop(st, st.stack[Len(st.stack) - 1])

\* ap_parse_array(parser, count, args)
ap_parse_array(st, p, args) ==
  [st EXCEPT
     !.stream = argstream_new(Len(args), args),
     !.stack = <<[parser |-> p, is_first_arg |-> TRUE,
                  arg |-> NullKey, cmd_parser |-> NULL]>>,
     !.status = "parsing",
     !.log = Append(@, [ev |-> "enter", parser |-> p, name |-> NullKey,
                        index |-> 0])]

\* ap_parse_stream, run to its end from any state
RECURSIVE RunParse(_)
RunParse(st) ==
  IF st.status # "parsing" THEN st
  ELSE IF argstream_has_next(st.stream) THEN RunParse(Body(st))
  ELSE RunParse(Return(st))

(***************************************************************************)
(* Host programs: the registration calls a host makes before it parses,    *)
(* in program order, and the arguments it may then be given.  Parsers are  *)
(* named by the order of their creation: 1 is the root, ap_cmd returns the *)
(* next.                                                                   *)
(***************************************************************************)
S_run     == <<"r","u","n">>
S_go      == <<"g","o">>
S_help    == <<"h","e","l","p">>
S_fast    == <<"f","a","s","t">>
S_verbose == <<"v","e","r","b","o","s","e">>
S_num     == <<"n","u","m">>
S_version == <<"v","e","r","s","i","o","n">>

Call(op, p, name, x) == [op |-> op, p |-> p, name |-> name, x |-> x]

\* commands, a nested command, callbacks; root and command share a flag name
ProgCommands ==
  << Call("ap_flag", 1, S_fast \o <<" ","f">>, 0),
     Call("ap_cmd", 1, S_run \o <<" ","r">>, 0),
     Call("ap_flag", 2, S_fast \o <<" ","f">>, 0),
     Call("ap_callback", 2, << >>, 1),
     Call("ap_cmd", 2, S_go, 0),
     Call("ap_callback", 3, << >>, 2) >>

TokCommands ==
  { S_run, S_go, <<"-","-">> \o S_fast, <<"x">>, <<"-","-">>, S_help, <<"-","f">> }

\* options with aliases, help and version texts
ProgOptions ==
  << Call("ap_helptext", 1, << >>, 1),
     Call("ap_version", 1, << >>, 1),
     Call("ap_flag", 1, <<"v"," ">> \o S_verbose, 0),
     Call("ap_int_opt", 1, <<"n"," ">> \o S_num, 3),
     Call("ap_str_opt", 1, <<"s">>, <<"d">>) >>

TokOptions ==
  { <<"-","v">>, <<"-","-">> \o S_verbose, <<"-","n">>, <<"-","-">> \o S_num,
    <<"5">>, <<"-","5">>, <<"-","-">> \o S_num \o <<"=","7">>,
    <<"-","n","=","1","2">>, <<"-","s">>, <<"x">>,
    <<"-","-">> \o S_version, <<"-","v","h">> }

\* one-letter flags, one of them a digit, and a value option
ProgCluster ==
  << Call("ap_flag", 1, <<"x">>, 0),
     Call("ap_flag", 1, <<"y">>, 0),
     Call("ap_flag", 1, <<"5">>, 0),
     Call("ap_int_opt", 1, <<"n">>, 0) >>

TokCluster ==
  { <<"-","x">>, <<"-","y">>, <<"-","x","y">>, <<"-","y","y">>,
    <<"-","x","5">>, <<"-","5">>, <<"-","n">>, <<"7">>,
    <<"-","-">> \o S_help, <<"-","x","h">> }

\* an option alias and a command alias registered twice, and the automatic
\* help command switched off
ProgRebind ==
  << Call("ap_flag", 1, <<"v"," ">> \o S_verbose, 0),
     Call("ap_int_opt", 1, <<"v">>, 0),
     Call("ap_cmd", 1, S_run \o <<" ","r">>, 0),
     Call("ap_cmd", 1, S_run, 0),
     Call("ap_cmd_help", 1, << >>, FALSE) >>

TokRebind ==
  { <<"-","v">>, <<"-","-">> \o S_verbose, <<"1">>, S_help, S_run, <<"r">>,
    <<"x">> }

\* a flag, an integer option and a string option, given in the equals form
ProgEquals ==
  << Call("ap_flag", 1, <<"v"," ">> \o S_verbose, 0),
     Call("ap_int_opt", 1, <<"n"," ">> \o S_num, 3),
     Call("ap_str_opt", 1, <<"s">>, <<"d">>) >>

TokEquals ==
  { <<"-","-">> \o S_num \o <<"=","7">>, <<"-","n","=">>, <<"-","n","=","x">>,
    <<"-","v","=","1">>, <<"-","v","n","=","1">>, <<"-","s","=","a","=","b">>,
    <<"x">> }

\* two string options and a flag, each of one letter, and a command
ProgValues ==
  << Call("ap_str_opt", 1, <<"a">>, <<"d">>),
     Call("ap_str_opt", 1, <<"b">>, <<"d">>),
     Call("ap_flag", 1, <<"v">>, 0),
     Call("ap_cmd", 1, S_run, 0) >>

TokValues ==
  { <<"-","a","b">>, <<"-","v","a">>, <<"-","-","a">>, <<"-","b">>,
    <<"-","-">>, S_run, <<"x">> }

\* a command named help; the automatic help command switched off and then
\* on again by a later command, and switched on for a parser without commands
ProgHelp ==
  << Call("ap_cmd", 1, S_help, 0),
     Call("ap_cmd_help", 1, << >>, FALSE),
     Call("ap_cmd", 1, S_run, 0),
     Call("ap_cmd_help", 3, << >>, TRUE) >>

TokHelp == { S_help, S_run, <<"x">>, <<"-","-">> }

Programs ==
  <<ProgCommands, ProgOptions, ProgCluster, ProgRebind, ProgEquals, ProgValues,
    ProgHelp>>

ProgTokens ==
  <<TokCommands, TokOptions, TokCluster, TokRebind, TokEquals, TokValues,
    TokHelp>>

ArgLists(tokens) == UNION {[1..n -> tokens] : n \in 0..MaxArgs}

(***************************************************************************)
(* The keys of the map specification.  "liquid" and "costarring" have the  *)
(* same FNV-1a hash; several others share a slot at capacity 8 and 16.     *)
(***************************************************************************)
KeyList ==
  << <<"l","i","q","u","i","d">>,
     <<"c","o","s","t","a","r","r","i","n","g">>,
     <<"v">>,
     <<"n">>,
     <<"v","e","r","b","o","s","e">>,
     <<"r","u","n">>,
     <<"s">>,
     <<"h","e","l","p">>,
     <<"x">>,
     <<"f","a","s","t">>,
     <<"h">>,
     <<"l","i","n","e">> >>

MapKeys == {KeyList[i] : i \in 1..NumKeys}

VARIABLES
  prog,     \* the host program that runs
  pc,       \* the next registration call of the host program
  parsers,  \* the ArgParser structs; parsers[1] is the root
  options,  \* the Option structs
  stream,   \* the ArgStream of ap_parse_array
  stack,    \* the running calls of ap_parse_stream, the innermost last
  status,   \* "setup", "parsing", "returned", "exit0" or "exit1"
  error,    \* the kind of the error err() reported, "" if none
  log,      \* history: calls of ap_parse_stream and of callbacks, in order
  map,      \* SpecMap: the Map under test
  lastSet   \* SpecMap: history, the value of the latest map_set of each key,
            \* 0 if none

vars == <<prog, pc, parsers, options, stream, stack, status, error, log,
          map, lastSet>>

parserVars == <<prog, pc, parsers, options, stream, stack, status, error, log>>

\* the machine state as one record
Cur ==
  [parsers |-> parsers, options |-> options, stream |-> stream,
   stack |-> stack, status |-> status, error |-> error, log |-> log]

Becomes(st) ==
  /\ parsers' = st.parsers
  /\ options' = st.options
  /\ stream' = st.stream
  /\ stack' = st.stack
  /\ status' = st.status
  /\ error' = st.error
  /\ log' = st.log

\* after ap_new() in the host's main
Init ==
  /\ prog \in 1..Len(Programs)
  /\ pc = 1
  /\ parsers = <<ap_new>>
  /\ options = << >>
  /\ stream = argstream_new(0, << >>)
  /\ stack = << >>
  /\ status = "setup"
  /\ error = ""
  /\ log = << >>
  /\ map = map_new
  /\ lastSet = [k \in MapKeys |-> 0]

\* the registration call the host makes next
NextCall == Programs[prog][pc]

Registering(op) ==
  /\ status = "setup"
  /\ pc <= Len(Programs[prog])
  /\ NextCall.op = op
  /\ pc' = pc + 1
  /\ UNCHANGED <<prog, map, lastSet>>

HostHelptext ==
  /\ Registering("ap_helptext")
  /\ Becomes(ap_helptext(Cur, NextCall.p, NextCall.x))

HostVersion ==
  /\ Registering("ap_version")
  /\ Becomes(ap_version(Cur, NextCall.p, NextCall.x))

HostFlag ==
  /\ Registering("ap_flag")
  /\ Becomes(ap_flag(Cur, NextCall.p, NextCall.name))

HostStrOpt ==
  /\ Registering("ap_str_opt")
  /\ Becomes(ap_str_opt(Cur, NextCall.p, NextCall.name, NextCall.x))

HostIntOpt ==
  /\ Registering("ap_int_opt")
  /\ Becomes(ap_int_opt(Cur, NextCall.p, NextCall.name, NextCall.x))

HostCmd ==
  /\ Registering("ap_cmd")
  /\ Becomes(ap_cmd(Cur, NextCall.p, NextCall.name))

HostCallback ==
  /\ Registering("ap_callback")
  /\ Becomes(ap_callback(Cur, NextCall.p, NextCall.x))

HostCmdHelp ==
  /\ Registering("ap_cmd_help")
  /\ Becomes(ap_cmd_help(Cur, NextCall.p, NextCall.x))

\* the host parses its arguments once registration is over
HostParse ==
  /\ status = "setup"
  /\ pc = Len(Programs[prog]) + 1
  /\ \E args \in ArgLists(ProgTokens[prog]) :
       Becomes(ap_parse_array(Cur, 1, args))
  /\ UNCHANGED <<prog, pc, map, lastSet>>

\* the running ap_parse_stream is about to read an argument that takes the
\* branch b
Reading(b) ==
  /\ status = "parsing"
  /\ argstream_has_next(stream)
  /\ NextBranch(Cur) = b

\* it runs the loop body once
BodyRuns ==
  /\ Becomes(Body(Cur))
  /\ UNCHANGED <<prog, pc, map, lastSet>>

ReadSeparator ==
  /\ Reading("separator")
  /\ BodyRuns

ReadLongEquals ==
  /\ Reading("long_equals")
  /\ BodyRuns

ReadLong ==
  /\ Reading("long")
  /\ BodyRuns

ReadDashPositional ==
  /\ Reading("dash_positional")
  /\ BodyRuns

ReadShortEquals ==
  /\ Reading("short_equals")
  /\ BodyRuns

ReadShort ==
  /\ Reading("short")
  /\ BodyRuns

ReadCommand ==
  /\ Reading("command")
  /\ BodyRuns

ReadHelp ==
  /\ Reading("help")
  /\ BodyRuns

ReadPositional ==
  /\ Reading("positional")
  /\ BodyRuns

\* the running ap_parse_stream finds the stream at its end and returns
LoopExit ==
  /\ status = "parsing"
  /\ ~argstream_has_next(stream)
  /\ Becomes(Return(Cur))
  /\ UNCHANGED <<prog, pc, map, lastSet>>

Next ==
  \/ HostHelptext
  \/ HostVersion
  \/ HostFlag
  \/ HostStrOpt
  \/ HostIntOpt
  \/ HostCmd
  \/ HostCallback
  \/ HostCmdHelp
  \/ HostParse
  \/ ReadSeparator
  \/ ReadLongEquals
  \/ ReadLong
  \/ ReadDashPositional
  \/ ReadShortEquals
  \/ ReadShort
  \/ ReadCommand
  \/ ReadHelp
  \/ ReadPositional
  \/ LoopExit

Spec == Init /\ [][Next]_vars

(***************************************************************************)
(* The map on its own: any sequence of map_set calls.                      *)
(***************************************************************************)
MapSet(k, v) ==
  /\ map' = map_set(map, k, v)
  /\ lastSet' = [lastSet EXCEPT ![k] = v]
  /\ UNCHANGED parserVars

\* two distinct pointers: the map never inspects a value, it only stores it
MapVals == {1, 2}

MapNext == \E k \in MapKeys, v \in MapVals : MapSet(k, v)

\* after map_new(); no host program runs
MapInit ==
  /\ prog = 1
  /\ pc = 1
  /\ parsers = <<ap_new>>
  /\ options = << >>
  /\ stream = argstream_new(0, << >>)
  /\ stack = << >>
  /\ status = "setup"
  /\ error = ""
  /\ log = << >>
  /\ map = map_new
  /\ lastSet = [k \in MapKeys |-> 0]

SpecMap == MapInit /\ [][MapNext]_vars

(***************************************************************************)
(* What the host program registered, read off its text.                    *)
(***************************************************************************)
OptionOps == {"ap_flag", "ap_str_opt", "ap_int_opt"}

\* the registration calls made so far
Made == 1..(pc - 1)

\* the pointer of the Option the i-th call created: Options are allocated in
\* the order of the calls
RegId(i) ==
  Cardinality({j \in 1..i : Programs[prog][j].op \in OptionOps})

WordsOf(i) ==
  LET w == SplitWords(Programs[prog][i].name, 1, << >>)
  IN  {w[k] : k \in 1..Len(w)}

\* no later call made so far registers the word again on the same parser
StillBound(i, word) ==
  \A j \in Made :
    (j > i /\ Programs[prog][j].op \in OptionOps
           /\ Programs[prog][j].p = Programs[prog][i].p)
      => word \notin WordsOf(j)

\* the callback events of the log for parser p
CallbacksOf(p) ==
  {i \in 1..Len(log) : log[i].ev = "callback" /\ log[i].parser = p}

EntersOf(p) ==
  {i \in 1..Len(log) : log[i].ev = "enter" /\ log[i].parser = p}

ParserIds == 1..Len(parsers)

\* the Options of parser p
OptionsOf(p) ==
  {parsers[p].option_vec.entries[i] : i \in 1..parsers[p].option_vec.count}

Positionals(p) == parsers[p].positional_args.entries

(***************************************************************************)
(* C1.  Command terminality: once the first argument of a level named a    *)
(* registered command, that level reads no further argument, and it has no *)
(* positional argument and no option occurrence, whatever follows.  With   *)
(* command run accepting --fast, [run, --fast, x] leaves the root without  *)
(* positionals, matched to run, and run's parser with [x] and fast found.  *)
(***************************************************************************)
ArgsRunFastX == <<S_run, <<"-","-">> \o S_fast, <<"x">> >>

C1_CommandTerminality ==
  /\ \A p \in ParserIds :
       ap_has_cmd(Cur, p) =>
         /\ ap_count_args(Cur, p) = 0
         /\ \A o \in OptionsOf(p) : options[o].count = 0
         /\ map_get(parsers[p].command_map, ap_cmd_name(Cur, p))
              = <<TRUE, ap_cmd_parser(Cur, p)>>
  /\ (status = "parsing" /\ argstream_has_next(stream))
       => ~ap_has_cmd(Cur, Top(Cur).parser)
  /\ (prog = 1 /\ status = "returned" /\ stream.args = ArgsRunFastX)
       => /\ ap_cmd_name(Cur, 1) = S_run
          /\ ap_count_args(Cur, 1) = 0
          /\ ap_args(Cur, ap_cmd_parser(Cur, 1)) = << <<"x">> >>
          /\ ap_found(Cur, ap_cmd_parser(Cur, 1), S_fast)

C1_Witness ==
  /\ prog = 1
  /\ status = "returned"
  /\ stream.args = ArgsRunFastX
  /\ ap_has_cmd(Cur, 1)
  /\ ap_args(Cur, 2) = << <<"x">> >>
  /\ ap_count(Cur, 2, S_fast) = 1
  /\ ap_count(Cur, 1, S_fast) = 0


(***************************************************************************)
(* C2.  Callback order.  As stated: for a stream that matches command A at *)
(* the root and then command B in A's parser, both with callbacks, A's     *)
(* callback is called before B's parser is entered.                        *)
(***************************************************************************)
\* A is the command matched at the root and B the one matched in A's parser
Nested(a, b) ==
  /\ parsers[1].cmd_parser = a
  /\ parsers[a].cmd_parser = b
  /\ parsers[a].callback # NULL
  /\ parsers[b].callback # NULL

C2_Original_OuterCallbackFirst ==
  \A a, b \in ParserIds :
    (status = "returned" /\ Nested(a, b))
      => \E i \in CallbacksOf(a) : \A j \in EntersOf(b) : i < j

(***************************************************************************)
(* C2, amended.  The callback of a matched command is called when the call *)
(* of ap_parse_stream on its parser has returned, which is after every     *)
(* nested command was entered, consumed the rest of the stream and had its *)
(* own callback called: B's callback comes before A's, and both come once  *)
(* the stream is exhausted.                                                *)
(***************************************************************************)
C2_InnerCallbackFirst ==
  /\ \A a, b \in ParserIds :
       Nested(a, b) =>
         /\ \A i \in CallbacksOf(a) :
              /\ \E j \in EntersOf(b) : j < i
              /\ \E j \in CallbacksOf(b) : j < i
         /\ status = "returned" => CallbacksOf(a) # {} /\ CallbacksOf(b) # {}
  /\ \A i \in 1..Len(log) :
       log[i].ev = "callback" => log[i].index = stream.count

C2_Witness ==
  /\ prog = 1
  /\ status = "returned"
  /\ Nested(2, 3)
  /\ Len(stream.args) = 3
  /\ CallbacksOf(2) # {}
  /\ CallbacksOf(3) # {}

(***************************************************************************)
(* C3.  Callback exactly once: the callback of a command's parser is       *)
(* called once if the command is matched and its parser returns, with the  *)
(* argument that matched and that parser, after the parser consumed its    *)
(* part of the stream; it is not called if the command is not matched or   *)
(* if the process exits (error, help, version) before the parser returns.  *)
(***************************************************************************)
MatchedBy(p) == {q \in ParserIds : parsers[q].cmd_parser = p}

C3_CallbackExactlyOnce ==
  /\ \A p \in ParserIds : Cardinality(CallbacksOf(p)) <= 1
  /\ \A i \in 1..Len(log) :
       log[i].ev = "callback" =>
         /\ parsers[log[i].parser].callback # NULL
         /\ \E q \in MatchedBy(log[i].parser) : parsers[q].cmd_name = log[i].name
         /\ log[i].index = stream.count
         /\ \E j \in EntersOf(log[i].parser) : j < i
  /\ status = "returned" =>
       \A p \in ParserIds :
         (parsers[p].callback # NULL /\ MatchedBy(p) # {})
           => Cardinality(CallbacksOf(p)) = 1
  /\ status \in {"exit0", "exit1"} =>
       \A p \in ParserIds : CallbacksOf(p) = {}
  /\ \A p \in ParserIds : MatchedBy(p) = {} => CallbacksOf(p) = {}

C3_Witness ==
  /\ prog = 1
  /\ status = "returned"
  /\ stream.args = <<S_run, <<"x">>, S_go>>
  /\ Cardinality(CallbacksOf(2)) = 1
  /\ CallbacksOf(3) = {}
  /\ log[Len(log)] = [ev |-> "callback", parser |-> 2, name |-> S_run, index |-> 3]

(***************************************************************************)
(* C4.  Separator law: when a level reads a bare '--', every remaining     *)
(* argument of the stream is appended as it stands and in order to the     *)
(* positional arguments of that level; no option changes, no command is    *)
(* entered, nothing exits or fails, and the stream is at its end.  With    *)
(* [--, --fast, -f] the positionals are [--fast, -f] and fast is not found.*)
(***************************************************************************)
ArgsSeparator == << <<"-","-">>, <<"-","-">> \o S_fast, <<"-","f">> >>

\* the arguments after the one the stream is about to give
Remaining == SubSeq(stream.args, stream.index + 2, stream.count)

SeparatorStep ==
  (status = "parsing" /\ argstream_has_next(stream)
     /\ argstream_next(stream) = <<"-","-">>)
    => /\ status' = "parsing"
       /\ error' = ""
       /\ stream'.index = stream.count
       /\ stream'.args = stream.args
       /\ options' = options
       /\ log' = log
       /\ Len(stack') = Len(stack)
       /\ Top(Cur).parser \in DOMAIN parsers'
       /\ \A q \in ParserIds :
            IF q = Top(Cur).parser
              THEN /\ parsers'[q].positional_args.entries
                        = Positionals(q) \o Remaining
                   /\ parsers'[q].positional_args.count
                        = parsers[q].positional_args.count + Len(Remaining)
                   /\ parsers'[q].cmd_name = parsers[q].cmd_name
                   /\ parsers'[q].option_map = parsers[q].option_map
              ELSE parsers'[q] = parsers[q]

SeparatorExample ==
  (prog = 1 /\ status = "returned" /\ stream.args = ArgsSeparator)
    => /\ ap_args(Cur, 1) = SubSeq(ArgsSeparator, 2, 3)
       /\ \A o \in OptionsOf(1) : options[o].count = 0

C4_SeparatorLaw == [][SeparatorStep]_vars /\ []SeparatorExample

C4_Witness ==
  /\ prog = 1
  /\ status = "returned"
  /\ stream.args = ArgsSeparator
  /\ ap_args(Cur, 1) = << <<"-","-">> \o S_fast, <<"-","f">> >>
  /\ ~ap_found(Cur, 1, S_fast)
  /\ ~ap_found(Cur, 1, <<"f">>)

(***************************************************************************)
(* What the arguments supply, read off the argument list: the reference    *)
(* the accessors are compared with.  It covers a parser without commands   *)
(* and arguments that name one option each.                                *)
(***************************************************************************)
ValueOps == {"ap_str_opt", "ap_int_opt"}

\* the latest call made so far that registers the word on the root, 0 if none
OwnerOf(word) ==
  LET regs == {i \in Made : /\ Programs[prog][i].op \in OptionOps
                            /\ Programs[prog][i].p = 1
                            /\ word \in WordsOf(i)}
  IN  IF regs = {} THEN 0 ELSE CHOOSE i \in regs : \A j \in regs : j <= i

\* how an argument reads: [kind, name, value]
FormAt(tok, dashes, eq) ==
  IF eq # 0
    THEN [kind |-> "equals", name |-> SubSeq(tok, dashes + 1, eq - 1),
          value |-> Skip(tok, eq)]
  ELSE IF dashes = 2 \/ Len(tok) = 2
    THEN [kind |-> "key", name |-> Skip(tok, dashes), value |-> << >>]
  ELSE [kind |-> "other", name |-> << >>, value |-> << >>]

FormOf(tok) ==
  IF tok = <<"-","-">>
    THEN [kind |-> "separator", name |-> << >>, value |-> << >>]
  ELSE IF StartsWithDashDash(tok) THEN FormAt(tok, 2, FindChar(tok, "=", 1))
  ELSE IF Len(tok) >= 2 /\ tok[1] = "-" /\ ~IsDigit(tok[2])
    THEN FormAt(tok, 1, FindChar(tok, "=", 1))
  ELSE [kind |-> "other", name |-> << >>, value |-> << >>]

\* the form f of the argument at i belongs to the registration reg
RECURSIVE Scan(_, _)
ScanAt(args, i, f, reg) ==
  IF f.kind = "separator" THEN << >>
  ELSE IF reg = 0 \/ Programs[prog][reg].op \notin ValueOps \/ f.kind = "other"
    THEN Scan(args, i + 1)
  ELSE IF f.kind = "equals"
    THEN <<[reg |-> reg, raw |-> f.value]>> \o Scan(args, i + 1)
  ELSE IF i + 1 <= Len(args)
    THEN <<[reg |-> reg, raw |-> args[i + 1]]>> \o Scan(args, i + 2)
  ELSE << >>

ScanForm(args, i, f) == ScanAt(args, i, f, OwnerOf(f.name))

\* the values the arguments from i on supply, in order: [reg, raw]
Scan(args, i) ==
  IF i > Len(args) THEN << >> ELSE ScanForm(args, i, FormOf(args[i]))

RawOf(supplied) == [j \in 1..Len(supplied) |-> supplied[j].raw]

\* the texts supplied to the option of the i-th call, in stream order
SuppliedTo(i) ==
  RawOf(SelectSeq(Scan(stream.args, 1), LAMBDA e : e.reg = i))

\* a decimal numeral without sign and without a leading zero
PlainDecimal(text) ==
  /\ Len(text) >= 1
  /\ \A j \in 1..Len(text) : IsDigit(text[j])
  /\ Len(text) = 1 \/ text[1] # "0"

Numeral(text) ==
  \/ PlainDecimal(text)
  \/ Len(text) >= 2 /\ text[1] = "-" /\ PlainDecimal(Skip(text, 1))

RECURSIVE DecimalOf(_, _, _)
DecimalOf(text, j, acc) ==
  IF j > Len(text) THEN acc
  ELSE DecimalOf(text, j + 1,
                 acc * 10 + (CHOOSE d \in 0..9 : Digits[d + 1] = text[j]))

\* the value the text stands for, for the kind of option
ReadAs(op, text) ==
  IF op = "ap_str_opt" THEN text
  ELSE IF text[1] = "-" THEN -DecimalOf(text, 2, 0)
  ELSE DecimalOf(text, 1, 0)

Readable(op, raws) ==
  op = "ap_int_opt" => \A j \in 1..Len(raws) : Numeral(raws[j])

(***************************************************************************)
(* C5.  Last write wins, with the full history: a value option supplied    *)
(* k >= 1 times (by any alias, in short, long or equals form) with the     *)
(* values v1..vk has, after the parse and through any alias, count k, the  *)
(* value list [v1..vk] in stream order and the scalar value vk.            *)
(***************************************************************************)
HistoryKept(op, word, raws) ==
  (Len(raws) >= 1 /\ Readable(op, raws))
    => /\ ap_get_opt(Cur, 1, word)[1]
       /\ ap_count(Cur, 1, word) = Len(raws)
       /\ ap_values(Cur, 1, word)
            = [j \in 1..Len(raws) |-> ReadAs(op, raws[j])]
       /\ ap_value(Cur, 1, word) = ReadAs(op, raws[Len(raws)])

C5_LastWriteWins ==
  (status = "returned" /\ prog \in {2, 3})
    => \A i \in Made :
         Programs[prog][i].op \in ValueOps
           => \A word \in WordsOf(i) :
                HistoryKept(Programs[prog][i].op, word, SuppliedTo(i))

C5_Witness ==
  /\ prog = 2
  /\ status = "returned"
  /\ stream.args = << <<"-","n">>, <<"5">>, <<"-","-">> \o S_num \o <<"=","7">> >>
  /\ SuppliedTo(4) = << <<"5">>, <<"7">> >>
  /\ ap_count(Cur, 1, <<"n">>) = 2
  /\ ap_values(Cur, 1, S_num) = <<5, 7>>
  /\ ap_value(Cur, 1, <<"n">>) = 7

(***************************************************************************)
(* C6.  Alias sharing: the words of one registration name the same Option, *)
(* so found, count and values read the same through each of them at any    *)
(* time, and an occurrence given by one alias shows through the others:    *)
(* with flag "v verbose", [-v] makes verbose found.  A word that a later   *)
(* registration bound again is left out.                                   *)
(***************************************************************************)
\* both words are found and give the same answers
SameAnswers(p, w1, w2, id) ==
  /\ ap_get_opt(Cur, p, w1) = <<TRUE, id>>
  /\ w1 # w2
       => /\ ap_get_opt(Cur, p, w2) = <<TRUE, id>>
          /\ ap_count(Cur, p, w1) = ap_count(Cur, p, w2)
          /\ ap_found(Cur, p, w1) = ap_found(Cur, p, w2)
          /\ options[id].type # "OPT_FLAG"
               => /\ ap_value(Cur, p, w1) = ap_value(Cur, p, w2)
                  /\ ap_values(Cur, p, w1) = ap_values(Cur, p, w2)

C6_AliasSharing ==
  /\ \A i \in Made :
       Programs[prog][i].op \in OptionOps
         => \A w1, w2 \in WordsOf(i) :
              (StillBound(i, w1) /\ StillBound(i, w2))
                => SameAnswers(Programs[prog][i].p, w1, w2, RegId(i))
  /\ (prog = 2 /\ status = "returned" /\ stream.args = << <<"-","v">> >>)
       => /\ ap_get_opt(Cur, 1, S_verbose)[1]
          /\ ap_found(Cur, 1, S_verbose)

C6_Witness ==
  /\ prog = 2
  /\ status = "returned"
  /\ stream.args = << <<"-","v">> >>
  /\ ap_count(Cur, 1, S_verbose) = 1
  /\ ap_count(Cur, 1, <<"v">>) = 1

(***************************************************************************)
(* C7.  Fallback law: a registered value option that no argument supplied  *)
(* has count 0, is not found, and its scalar accessor gives the fallback   *)
(* of its registration, before the parse as well as after a parse that     *)
(* does not supply it.                                                     *)
(***************************************************************************)
FallbackGiven(p, word, fallback) ==
  /\ ap_get_opt(Cur, p, word)[1]
  /\ ap_count(Cur, p, word) = 0
       => /\ ~ap_found(Cur, p, word)
          /\ ap_value(Cur, p, word) = fallback

\* nothing is supplied before the parse, nor by arguments that do not
\* name the option
Unsupplied(i) ==
  \/ status = "setup"
  \/ status = "returned" /\ prog \in {2, 3} /\ SuppliedTo(i) = << >>

C7_FallbackLaw ==
  \A i \in Made :
    Programs[prog][i].op \in ValueOps
      => \A word \in WordsOf(i) :
           StillBound(i, word)
             => /\ FallbackGiven(Programs[prog][i].p, word, Programs[prog][i].x)
                /\ Unsupplied(i)
                     => ap_value(Cur, Programs[prog][i].p, word)
                          = Programs[prog][i].x

C7_Witness ==
  /\ prog = 2
  /\ status = "returned"
  /\ stream.args = << <<"-","v">>, <<"x">> >>
  /\ ap_count(Cur, 1, S_num) = 0
  /\ ap_value(Cur, 1, S_num) = 3
  /\ ap_value(Cur, 1, <<"s">>) = <<"d">>

(***************************************************************************)
(* Clusters.  A level is about to read a short-form argument all of whose  *)
(* characters are registered flags; the same machine is also run on the    *)
(* stream in which that argument is split into one argument per character. *)
(***************************************************************************)
IsFlag(st, got) == got[1] /\ st.options[got[2]].type = "OPT_FLAG"

AllFlags(st, p, chars) ==
  \A k \in 1..Len(chars) :
    IsFlag(st, map_get(st.parsers[p].option_map, <<chars[k]>>))

\* the characters of the cluster the stream gives next
NextCluster == Skip(argstream_next(stream), 1)

AtCluster ==
  /\ status = "parsing"
  /\ argstream_has_next(stream)
  /\ NextBranch(Cur) = "short"
  /\ AllFlags(Cur, Top(Cur).parser, NextCluster)

SplitTokens(chars) == [k \in 1..Len(chars) |-> <<"-", chars[k]>>]

\* the machine with the next argument split
SplitStream(st, chars) ==
  [st EXCEPT
     !.stream.args = SubSeq(@, 1, st.stream.index) \o SplitTokens(chars)
                       \o SubSeq(@, st.stream.index + 2, Len(@)),
     !.stream.count = @ + Len(chars) - 1]

\* n passes through the loop body
RECURSIVE RunSteps(_, _)
RunSteps(st, n) ==
  IF n = 0 \/ st.status # "parsing" \/ ~argstream_has_next(st.stream) THEN st
  ELSE RunSteps(Body(st), n - 1)

\* what the parse has done and what it has left to read
Observed(st) ==
  [parsers |-> st.parsers, options |-> st.options, stack |-> st.stack,
   status |-> st.status, error |-> st.error, log |-> st.log,
   rest |-> SubSeq(st.stream.args, st.stream.index + 1, st.stream.count)]

ClusterAsSplit(chars) ==
  Observed(Body(Cur))
    = Observed(RunSteps(SplitStream(Cur, chars), Len(chars)))

ClusterExamples ==
  /\ (prog = 3 /\ status = "returned" /\ stream.args = << <<"-","x","y">> >>)
       => ap_found(Cur, 1, <<"x">>) /\ ap_found(Cur, 1, <<"y">>)
  /\ (prog = 3 /\ status = "returned" /\ stream.args = << <<"-","y","y">> >>)
       => ap_count(Cur, 1, <<"y">>) = 2

(***************************************************************************)
(* C8.  Clustering equivalence.  As stated: for registered flags, a short  *)
(* cluster -c1c2...cn leaves the parser in the same state as the separate  *)
(* arguments -c1, -c2, ..., -cn in that order.                             *)
(***************************************************************************)
C8_Original_ClusterEquivalence ==
  /\ AtCluster => ClusterAsSplit(NextCluster)
  /\ ClusterExamples

(***************************************************************************)
(* C8, amended.  The equivalence holds for clusters of registered flags    *)
(* none of whose characters is a digit or a dash: an argument -d with a    *)
(* digit d is a positional argument, while the digit inside a cluster is   *)
(* looked up as a flag.  [-xy] makes x and y found, and a letter repeated  *)
(* in a cluster is counted once per occurrence.                            *)
(***************************************************************************)
Letters(chars) ==
  \A k \in 1..Len(chars) : ~IsDigit(chars[k]) /\ chars[k] # "-"

C8_ClusterEquivalence ==
  /\ (AtCluster /\ Letters(NextCluster)) => ClusterAsSplit(NextCluster)
  /\ ClusterExamples

C8_Witness ==
  /\ prog = 3
  /\ status = "returned"
  /\ stream.args = << <<"-","y","y">>, <<"-","x","y">> >>
  /\ ap_count(Cur, 1, <<"y">>) = 3
  /\ ap_count(Cur, 1, <<"x">>) = 1
  /\ ap_count_args(Cur, 1) = 0

(***************************************************************************)
(* C9.  Negative numbers: an argument made of a dash and digits that a     *)
(* level reads as an argument in its own right is appended to that level's *)
(* positional arguments; no option is looked up or counted and no error is *)
(* raised, even if a flag is registered under the digit.                   *)
(***************************************************************************)
DashNumber(tok) ==
  /\ Len(tok) >= 2
  /\ tok[1] = "-"
  /\ \A k \in 2..Len(tok) : IsDigit(tok[k])

DashNumberStep ==
  (status = "parsing" /\ argstream_has_next(stream)
     /\ DashNumber(argstream_next(stream)))
    => /\ status' = "parsing"
       /\ error' = ""
       /\ options' = options
       /\ log' = log
       /\ stream' = [stream EXCEPT !.index = @ + 1]
       /\ stack' = [stack EXCEPT ![Len(stack)].is_first_arg = FALSE]
       /\ parsers' = [parsers EXCEPT
                        ![Top(Cur).parser].positional_args =
                           vec_add(@, argstream_next(stream))]

DashNumberExample ==
  (prog = 3 /\ status = "returned" /\ stream.args = << <<"-","5">> >>)
    => /\ ap_args(Cur, 1) = << <<"-","5">> >>
       /\ ~ap_found(Cur, 1, <<"5">>)

C9_NegativeNumberPositional == [][DashNumberStep]_vars /\ []DashNumberExample

C9_Witness ==
  /\ prog = 3
  /\ status = "returned"
  /\ stream.args = << <<"-","x">>, <<"-","5">> >>
  /\ ap_args(Cur, 1) = << <<"-","5">> >>
  /\ ap_get_opt(Cur, 1, <<"5">>)[1]
  /\ ap_count(Cur, 1, <<"5">>) = 0
  /\ ap_count(Cur, 1, <<"x">>) = 1

(***************************************************************************)
(* C10.  Map correctness across growth: after any sequence of map_set      *)
(* calls, map_get finds every key that was set, with the value of its      *)
(* latest map_set, finds no key that was never set, and count is the       *)
(* number of distinct keys set, however often the map has grown and        *)
(* whichever keys share a hash or a slot.                                  *)
(***************************************************************************)
KeysSet == {k \in MapKeys : lastSet[k] # 0}

\* the keys of KeyList that no map_set is ever given
SpareKeys == {KeyList[i] : i \in 1..Len(KeyList)} \ MapKeys

C10_MapCorrectness ==
  /\ \A k \in MapKeys :
       map_get(map, k) = IF lastSet[k] = 0 THEN <<FALSE, 0>>
                         ELSE <<TRUE, lastSet[k]>>
  /\ \A k \in SpareKeys : ~map_get(map, k)[1]
  /\ map.count = Cardinality(KeysSet)

\* every key is set, the map has grown three times, and the two keys with
\* the same hash hold different values
C10_Witness ==
  /\ map.capacity = 32
  /\ map.count = NumKeys
  /\ KeysSet = MapKeys
  /\ str_hash(KeyList[1]) = str_hash(KeyList[2])
  /\ map_get(map, KeyList[1]) = <<TRUE, 1>>
  /\ map_get(map, KeyList[2]) = <<TRUE, 2>>

(***************************************************************************)
(* The automatic help command.  A level reads the literal help as its      *)
(* first argument.                                                         *)
(***************************************************************************)
AtLeadingHelp ==
  /\ status = "parsing"
  /\ argstream_has_next(stream)
  /\ argstream_next(stream) = S_help
  /\ Top(Cur).is_first_arg

\* the argument after the one the stream is about to give, if there is one
HasFollower == stream.index + 2 <= stream.count

Follower == stream.args[stream.index + 2]

\* the step ends the process as the help command does, adding no positional
HelpOutcome(p) ==
  /\ IF ~HasFollower
       THEN status' = "exit1" /\ error' = "MissingHelpArgument"
     ELSE IF map_get(parsers[p].command_map, Follower)[1]
       THEN status' = "exit0" /\ error' = ""
     ELSE status' = "exit1" /\ error' = "UnrecognizedCommand"
  /\ parsers' = parsers
  /\ options' = options
  /\ log' = log

(***************************************************************************)
(* C11.  Automatic help command.  As stated: on a parser with at least one *)
(* registered command, a leading help followed by a registered command     *)
(* name ends the process with success, help with nothing after it is a     *)
(* MissingHelpArgument error, help followed by another argument is an      *)
(* UnrecognizedCommand error; neither argument becomes a positional.       *)
(***************************************************************************)
HelpStepOriginal ==
  (AtLeadingHelp /\ parsers[Top(Cur).parser].command_vec.count >= 1)
    => HelpOutcome(Top(Cur).parser)

C11_Original_HelpWithCommands == [][HelpStepOriginal]_vars

(***************************************************************************)
(* C11, amended.  The same holds on a parser whose automatic help command  *)
(* is enabled, which registering a command does and ap_cmd_help(false)     *)
(* undoes, and on which help is not itself a registered command name.      *)
(* With the automatic help command disabled, help is a positional.         *)
(***************************************************************************)
HelpStepEnabled ==
  (/\ AtLeadingHelp
   /\ parsers[Top(Cur).parser].cmd_help
   /\ ~map_get(parsers[Top(Cur).parser].command_map, S_help)[1])
    => HelpOutcome(Top(Cur).parser)

HelpStepDisabled ==
  (/\ AtLeadingHelp
   /\ ~parsers[Top(Cur).parser].cmd_help
   /\ ~map_get(parsers[Top(Cur).parser].command_map, S_help)[1])
    => /\ status' = "parsing"
       /\ parsers' = [parsers EXCEPT
                        ![Top(Cur).parser].positional_args = vec_add(@, S_help)]

C11_AutomaticHelp == [][HelpStepEnabled /\ HelpStepDisabled]_vars

\* run's parser reads help go: success, nothing is a positional
C11_Witness ==
  /\ prog = 1
  /\ status = "exit0"
  /\ stream.args = <<S_run, S_help, S_go>>
  /\ stream.index = 3
  /\ Len(stack) = 2
  /\ ap_count_args(Cur, 1) = 0
  /\ ap_count_args(Cur, 2) = 0

(***************************************************************************)
(* C12.  Errors are fatal and immediate: the step that meets an error      *)
(* leaves the process terminated with a non-zero status and the kind of    *)
(* the error, having read no more than the argument at fault and its       *)
(* value; it appends no positional, calls no callback and returns from no  *)
(* level.  A terminated process takes no further step, so nothing is read, *)
(* counted or appended after the error.  An unregistered long option and a *)
(* value option at the end of the stream are such errors.                  *)
(***************************************************************************)
ErrorKinds ==
  {"UnrecognizedOption", "MissingValue", "UnparsableNumber", "OutOfRange",
   "UnrecognizedCommand", "MissingHelpArgument"}

\* the option the next argument names, if it is a plain long or short key
NamedNext == ap_get_opt(Cur, Top(Cur).parser, FormOf(argstream_next(stream)).name)

AtKey ==
  /\ status = "parsing"
  /\ argstream_has_next(stream)
  /\ FormOf(argstream_next(stream)).kind = "key"

\* a value option is named by the last argument of the stream
ValueAtEnd(got) ==
  /\ got[1]
  /\ options[got[2]].type # "OPT_FLAG"
  /\ ~HasFollower

FatalStep ==
  /\ status # "exit1"
  /\ (error' # "") = (status' = "exit1")
  /\ status' = "exit1"
       => /\ error' \in ErrorKinds
          /\ parsers' = parsers
          /\ log' = log
          /\ stack' = stack
          /\ stream'.index \in {stream.index + 1, stream.index + 2}
          /\ stream'.index <= stream.count
  /\ (AtKey /\ ValueAtEnd(NamedNext))
       => /\ status' = "exit1"
          /\ error' = "MissingValue"
          /\ options' = options

Terminated ==
  status = "exit1"
    => /\ error \in ErrorKinds
       /\ stack # << >>
       /\ \A i \in 1..Len(log) : log[i].ev # "callback"

C12_FatalImmediate == [][FatalStep]_vars /\ []Terminated

\* the number is at fault: the flag after it is never read
C12_Witness ==
  /\ prog = 2
  /\ status = "exit1"
  /\ error = "UnparsableNumber"
  /\ stream.args = << <<"-","n">>, <<"x">>, <<"-","v">> >>
  /\ stream.index = 2
  /\ ap_count(Cur, 1, <<"n">>) = 0
  /\ ap_count(Cur, 1, <<"v">>) = 0
  /\ ap_count_args(Cur, 1) = 0

(***************************************************************************)
(* C13.  Last registration wins: registering a word again on the same      *)
(* parser raises no error; the word then names the Option, or the command  *)
(* parser, of the later registration, occurrences given under it go to the *)
(* later one only, and the other words of the earlier registration still   *)
(* name the earlier one.                                                   *)
(***************************************************************************)
\* the latest call made so far, of one of the ops, that registers the word
\* on parser p; 0 if none
LatestReg(p, word, ops) ==
  LET regs == {i \in Made : /\ Programs[prog][i].op \in ops
                            /\ Programs[prog][i].p = p
                            /\ word \in WordsOf(i)}
  IN  IF regs = {} THEN 0 ELSE CHOOSE i \in regs : \A j \in regs : j <= i

\* the pointer of the parser the i-th call created: the root is 1
CmdId(i) ==
  1 + Cardinality({j \in 1..i : Programs[prog][j].op = "ap_cmd"})

\* every registered word names what its latest registration created
LatestBound(i) ==
  \A word \in WordsOf(i) :
    IF Programs[prog][i].op \in OptionOps
      THEN ap_get_opt(Cur, Programs[prog][i].p, word)
             = <<TRUE, RegId(LatestReg(Programs[prog][i].p, word, OptionOps))>>
      ELSE map_get(parsers[Programs[prog][i].p].command_map, word)
             = <<TRUE, CmdId(LatestReg(Programs[prog][i].p, word, {"ap_cmd"}))>>

Occurrences(tok) == Cardinality({j \in 1..Len(stream.args) : stream.args[j] = tok})

\* flag "v verbose", then integer option "v"; command "run r", then "run"
RebindExamples ==
  (prog = 4 /\ status = "returned")
    => /\ ap_get_opt(Cur, 1, <<"v">>) = <<TRUE, 2>>
       /\ ap_get_opt(Cur, 1, S_verbose) = <<TRUE, 1>>
       /\ map_get(parsers[1].command_map, S_run) = <<TRUE, 3>>
       /\ map_get(parsers[1].command_map, <<"r">>) = <<TRUE, 2>>
       /\ ~ap_has_cmd(Cur, 1)
            => /\ options[1].count = Occurrences(<<"-","-">> \o S_verbose)
               /\ options[2].count = Occurrences(<<"-","v">>)
       /\ ap_has_cmd(Cur, 1)
            => /\ ap_cmd_parser(Cur, 1) = IF ap_cmd_name(Cur, 1) = S_run
                                            THEN 3 ELSE 2
               /\ \A q \in ParserIds \ {ap_cmd_parser(Cur, 1)} :
                    ap_count_args(Cur, q) = 0

C13_LastRegistrationWins ==
  /\ status = "setup" => error = ""
  /\ \A i \in Made :
       Programs[prog][i].op \in OptionOps \cup {"ap_cmd"} => LatestBound(i)
  /\ RebindExamples

C13_Witness ==
  /\ prog = 4
  /\ status = "returned"
  /\ stream.args = << <<"-","v">>, <<"1">>, <<"-","-">> \o S_verbose >>
  /\ ap_value(Cur, 1, <<"v">>) = 1
  /\ options[2].values = <<1>>
  /\ options[1].count = 1
  /\ ap_count(Cur, 1, S_verbose) = 1

\* the word run names the parser of the later registration
C13_WitnessCommand ==
  /\ prog = 4
  /\ status = "returned"
  /\ stream.args = <<S_run, <<"x">> >>
  /\ ap_cmd_parser(Cur, 1) = 3
  /\ ap_args(Cur, 3) = << <<"x">> >>
  /\ ap_count_args(Cur, 2) = 0

(***************************************************************************)
(* The help and version shortcuts.  A level reads --name, or a short       *)
(* argument in which the character c is reached: c stands for the first    *)
(* time at k and the characters before it are registered flags.            *)
(***************************************************************************)
AtArg == status = "parsing" /\ argstream_has_next(stream)

Registered(word) == ap_get_opt(Cur, Top(Cur).parser, word)[1]

LongNamed(name) == AtArg /\ argstream_next(stream) = <<"-","-">> \o name

ReachedAt(chars, c, k) ==
  /\ chars[k] = c
  /\ \A j \in 1..(k - 1) :
       /\ chars[j] # c
       /\ IsFlag(Cur, ap_get_opt(Cur, Top(Cur).parser, <<chars[j]>>))

ShortReaches(c) ==
  /\ AtArg
  /\ NextBranch(Cur) = "short"
  /\ \E k \in 1..Len(NextCluster) : ReachedAt(NextCluster, c, k)

Succeeds == status' = "exit0" /\ error' = ""

Unrecognized == status' = "exit1" /\ error' = "UnrecognizedOption"

\* the shortcuts: the long name, the character, the text of the parser
Shortcuts ==
  { [name |-> S_help, c |-> "h", text |-> parsers[Top(Cur).parser].helptext],
    [name |-> S_version, c |-> "v", text |-> parsers[Top(Cur).parser].version] }

(***************************************************************************)
(* C14.  Help and version shortcuts.  As stated: with the help (version)   *)
(* text set, --help (--version), or an h (v) in a short argument, met in   *)
(* option position ends the process with success; with the text not set    *)
(* and no option registered under the name it is an UnrecognizedOption     *)
(* error.                                                                  *)
(***************************************************************************)
ShortcutStepOriginal ==
  AtArg =>
    \A s \in Shortcuts :
      /\ (LongNamed(s.name) /\ s.text # NULL) => Succeeds
      /\ (ShortReaches(s.c) /\ s.text # NULL) => Succeeds
      /\ (LongNamed(s.name) /\ s.text = NULL /\ ~Registered(s.name))
           => Unrecognized
      /\ (ShortReaches(s.c) /\ s.text = NULL /\ ~Registered(<<s.c>>))
           => Unrecognized

C14_Original_Shortcuts == [][ShortcutStepOriginal]_vars

(***************************************************************************)
(* C14, amended.  The shortcuts act only if no option is registered under  *)
(* the name: then a set text ends the process with success and an unset    *)
(* text is an UnrecognizedOption error.  An option registered as help, h,  *)
(* version or v is handled as that option whether the text is set or not:  *)
(* with the version text set and the flag "v verbose", -v counts the flag. *)
(***************************************************************************)
RegisteredFlagCounts(c) ==
  (/\ argstream_next(stream) = <<"-", c>>
   /\ IsFlag(Cur, ap_get_opt(Cur, Top(Cur).parser, <<c>>)))
    => /\ status' = "parsing"
       /\ options' = [options EXCEPT
                        ![ap_get_opt(Cur, Top(Cur).parser, <<c>>)[2]].count
                           = @ + 1]

ShortcutStep ==
  AtArg =>
    \A s \in Shortcuts :
      /\ (LongNamed(s.name) /\ ~Registered(s.name))
           => IF s.text # NULL THEN Succeeds ELSE Unrecognized
      /\ (ShortReaches(s.c) /\ ~Registered(<<s.c>>))
           => IF s.text # NULL THEN Succeeds ELSE Unrecognized
      /\ RegisteredFlagCounts(s.c)

C14_Shortcuts == [][ShortcutStep]_vars

\* the flag v is counted, then the h of the cluster prints the help text
C14_Witness ==
  /\ prog = 2
  /\ status = "exit0"
  /\ stream.args = << <<"-","v">>, <<"-","v","h">>, <<"x">> >>
  /\ stream.index = 2
  /\ parsers[1].helptext # NULL
  /\ ap_count(Cur, 1, <<"v">>) = 2
  /\ ~ap_get_opt(Cur, 1, <<"h">>)[1]

(***************************************************************************)
(* C15.  First-position rule: at every level, the root and each matched    *)
(* command alike, an argument is taken for a command name only if it is    *)
(* the first argument that level reads.  A registered command name read    *)
(* later is appended to the positionals of the level and matches nothing;  *)
(* read first, it is entered, and the first argument its parser reads is   *)
(* eligible again, so that matches nest.                                   *)
(***************************************************************************)
\* where the stream stood when ap_parse_stream was called on parser p
EntryIndex(p) == log[CHOOSE i \in EntersOf(p) : TRUE].index

\* the running level has read no argument yet
FirstRead == stream.index = EntryIndex(Top(Cur).parser)

\* the next argument is a word that is a command of the running level
AtCommandName ==
  /\ AtArg
  /\ argstream_next(stream)[1] # "-"
  /\ map_get(parsers[Top(Cur).parser].command_map, argstream_next(stream))[1]

FirstPositionStep ==
  /\ (AtCommandName /\ ~FirstRead)
       => /\ status' = "parsing"
          /\ Len(stack') = Len(stack)
          /\ log' = log
          /\ parsers' = [parsers EXCEPT
                           ![Top(Cur).parser].positional_args =
                              vec_add(@, argstream_next(stream))]
  /\ (AtCommandName /\ FirstRead)
       => /\ status' = "parsing"
          /\ Len(stack') = Len(stack) + 1
          /\ stack'[Len(stack')].parser =
               map_get(parsers[Top(Cur).parser].command_map,
                       argstream_next(stream))[2]
          /\ stack'[Len(stack')].is_first_arg
          /\ parsers'[Top(Cur).parser].cmd_name = argstream_next(stream)
          /\ parsers'[Top(Cur).parser].positional_args
               = parsers[Top(Cur).parser].positional_args
  /\ (AtArg /\ ~FirstRead) => Len(stack') <= Len(stack)

\* is_first_arg says that the level has read nothing
FirstArgFlag ==
  status = "parsing"
    => /\ EntersOf(Top(Cur).parser) # {}
       /\ Top(Cur).is_first_arg = FirstRead

C15_FirstPositionRule == [][FirstPositionStep]_vars /\ []FirstArgFlag

\* run is matched, then a flag is read; go, a command of run, is a positional
C15_Witness ==
  /\ prog = 1
  /\ status = "returned"
  /\ stream.args = <<S_run, <<"-","f">>, S_go>>
  /\ ap_cmd_name(Cur, 1) = S_run
  /\ ~ap_has_cmd(Cur, 2)
  /\ ap_args(Cur, 2) = <<S_go>>
  /\ map_get(parsers[2].command_map, S_go)[1]

\* matches nest: run at the root, go in run's parser
C15_WitnessNested ==
  /\ prog = 1
  /\ status = "returned"
  /\ stream.args = <<S_run, S_go, S_run>>
  /\ ap_cmd_parser(Cur, 1) = 2
  /\ ap_cmd_parser(Cur, 2) = 3
  /\ ap_args(Cur, 3) = <<S_run>>

Occupied == {i \in 1..Len(map.entries) : map.entries[i].key # NullKey}

LoadAtMostHalf ==
  /\ Len(map.entries) = map.capacity
  /\ map.count = Cardinality(Occupied)
  /\ map.max_load_threshold = map.capacity \div 2
  /\ map.count <= map.max_load_threshold
  /\ 2 * map.count <= map.capacity

\* a map_set on a map at its threshold grows it, whatever the key
GrowsAtThreshold ==
  IF map.count = map.max_load_threshold
    THEN map'.capacity = IF map.capacity < 8 THEN 8 ELSE 2 * map.capacity
    ELSE map'.capacity = map.capacity

IsPowerOfTwo(n) == \E e \in 0..16 : n = 2 ^ e

\* the uint32_t h[1] * 2^16 + h[2] modulo c, computed on the halves
HashMod(h, c) == (((h[1] % c) * (65536 % c)) + h[2]) % c

\* the first slot map_find probes for the key is hash mod capacity
MaskIsModulo(key_hash) ==
  map.capacity > 0
    => /\ SlotMask(map, key_hash[2]) \in 0..(map.capacity - 1)
       /\ SlotMask(map, key_hash[2]) = HashMod(key_hash, map.capacity)

AtEquals == AtArg /\ FormOf(argstream_next(stream)).kind = "equals"

\* what the look-up of the name gives
EqualsNamed ==
  ap_get_opt(Cur, Top(Cur).parser, FormOf(argstream_next(stream)).name)

EqualsValue == FormOf(argstream_next(stream)).value

\* the step is a fatal error that changes no option
FailsUnchanged ==
  /\ status' = "exit1"
  /\ error' # ""
  /\ options' = options
  /\ parsers' = parsers

\* the step appends value to the option at id and reads no other argument
AppendsOne(id, value) ==
  /\ status' = "parsing"
  /\ options' = [options EXCEPT ![id] = option_append_value(@, value)]
  /\ parsers' = parsers
  /\ stream' = [stream EXCEPT !.index = @ + 1]

(***************************************************************************)
(* C18.  Equals form.  As stated: the name is looked up as it stands, as   *)
(* one key; if it is not registered or the value is empty the step is a    *)
(* fatal error that changes no option, otherwise the value is appended as  *)
(* one occurrence of the option and no further argument is read for it.    *)
(***************************************************************************)
EqualsStepOriginal(got, value) ==
  IF ~got[1] \/ value = << >>
    THEN FailsUnchanged
    ELSE /\ status' = "parsing"
         /\ options'[got[2]].count = options[got[2]].count + 1
         /\ stream' = [stream EXCEPT !.index = @ + 1]

C18_Original_EqualsForm ==
  [][AtEquals => EqualsStepOriginal(EqualsNamed, EqualsValue)]_vars

(***************************************************************************)
(* C18, amended.  The name must be that of a value option: a name that is  *)
(* not registered, or that is registered as a flag, is an                  *)
(* UnrecognizedOption error, and an empty value after that is a            *)
(* MissingValue error.  Otherwise the value goes through the conversion of *)
(* the option: a string is appended as it stands, an integer is appended   *)
(* if the text converts and is a fatal error if it does not.  No option    *)
(* changes in an error, and no further argument is read.                   *)
(***************************************************************************)
EqualsStep(got, value) ==
  IF ~got[1] \/ options[got[2]].type = "OPT_FLAG"
    THEN FailsUnchanged /\ error' = "UnrecognizedOption"
  ELSE IF value = << >>
    THEN FailsUnchanged /\ error' = "MissingValue"
  ELSE IF options[got[2]].type = "OPT_STR"
    THEN AppendsOne(got[2], value)
  ELSE IF Numeral(value)
    THEN AppendsOne(got[2], ReadAs("ap_int_opt", value))
  ELSE FailsUnchanged /\ error' \in {"UnparsableNumber", "OutOfRange"}

C18_EqualsForm ==
  [][AtEquals => /\ EqualsStep(EqualsNamed, EqualsValue)
                 /\ stream'.index = stream.index + 1]_vars

\* the value is the text after the first =, and x is read as a positional
C18_Witness ==
  /\ prog = 5
  /\ status = "returned"
  /\ stream.args = << <<"-","s","=","a","=","b">>,
                      <<"-","-">> \o S_num \o <<"=","7">>, <<"x">> >>
  /\ ap_values(Cur, 1, <<"s">>) = << <<"a","=","b">> >>
  /\ ap_values(Cur, 1, <<"n">>) = <<7>>
  /\ ap_args(Cur, 1) = << <<"x">> >>

(***************************************************************************)
(* C19.  Value consumption: a value option matched without = takes the     *)
(* next unread argument as its value, whatever it looks like, and that     *)
(* argument is read as nothing else; with no argument left the step is a   *)
(* MissingValue error.  In a cluster the options take their values in the  *)
(* order of the letters: -ab followed by t1 t2 gives t1 to a and t2 to b.  *)
(***************************************************************************)
IsValueOption(got) == got[1] /\ options[got[2]].type # "OPT_FLAG"

\* the value the option at id makes of the text
Converts(id, text) == options[id].type = "OPT_STR" \/ Numeral(text)

ValueOf(id, text) ==
  IF options[id].type = "OPT_STR" THEN text ELSE ReadAs("ap_int_opt", text)

\* nothing but the options and the stream changes: the arguments read are
\* no positionals, no commands
OnlyOptions(n) ==
  /\ parsers' = parsers
  /\ log' = log
  /\ Len(stack') = Len(stack)
  /\ stream' = [stream EXCEPT !.index = @ + n]

\* --name or -c names a value option
KeyStep(got) ==
  IsValueOption(got)
    => IF ~HasFollower
         THEN status' = "exit1" /\ error' = "MissingValue" /\ options' = options
       ELSE IF Converts(got[2], Follower)
         THEN /\ status' = "parsing"
              /\ OnlyOptions(2)
              /\ options' = [options EXCEPT ![got[2]] =
                    option_append_value(@, ValueOf(got[2], Follower))]
       ELSE status' = "exit1" /\ options' = options /\ OnlyOptions(2)

\* the arguments after the cluster
After(n) == stream.args[stream.index + 1 + n]

Left == stream.count - (stream.index + 1)

\* a cluster of two letters: a value option first, a string option second
TwoValues(a, b) ==
  (IsValueOption(a) /\ options[a[2]].type = "OPT_STR"
     /\ IsValueOption(b) /\ options[b[2]].type = "OPT_STR" /\ a # b)
    => IF Left >= 2
         THEN /\ status' = "parsing"
              /\ OnlyOptions(3)
              /\ options' = [options EXCEPT
                    ![a[2]] = option_append_value(@, After(1)),
                    ![b[2]] = option_append_value(@, After(2))]
         ELSE status' = "exit1" /\ error' = "MissingValue"

\* a cluster of two letters: a flag first, a string option second
FlagThenValue(a, b) ==
  (IsFlag(Cur, a) /\ IsValueOption(b) /\ options[b[2]].type = "OPT_STR")
    => IF Left >= 1
         THEN /\ status' = "parsing"
              /\ OnlyOptions(2)
              /\ options' = [options EXCEPT
                    ![a[2]].count = @ + 1,
                    ![b[2]] = option_append_value(@, After(1))]
         ELSE status' = "exit1" /\ error' = "MissingValue"

AtPair == AtArg /\ NextBranch(Cur) = "short" /\ Len(NextCluster) = 2

ValueStep ==
  /\ AtKey => KeyStep(NamedNext)
  /\ AtPair
       => /\ TwoValues(ap_get_opt(Cur, Top(Cur).parser, <<NextCluster[1]>>),
                       ap_get_opt(Cur, Top(Cur).parser, <<NextCluster[2]>>))
          /\ FlagThenValue(ap_get_opt(Cur, Top(Cur).parser, <<NextCluster[1]>>),
                           ap_get_opt(Cur, Top(Cur).parser, <<NextCluster[2]>>))

C19_ValueConsumption == [][ValueStep]_vars

\* a takes --, b takes the command name; neither is read as what it looks like
C19_Witness ==
  /\ prog = 6
  /\ status = "returned"
  /\ stream.args = << <<"-","a","b">>, <<"-","-">>, S_run >>
  /\ ap_values(Cur, 1, <<"a">>) = << <<"-","-">> >>
  /\ ap_values(Cur, 1, <<"b">>) = <<S_run>>
  /\ ap_count_args(Cur, 1) = 0
  /\ ~ap_has_cmd(Cur, 1)

(***************************************************************************)
(* The integer conversion on its own: option_try_set is called on one      *)
(* integer option with texts drawn from IntTexts, until err() ends the     *)
(* process.  log records the text of each call.                            *)
(***************************************************************************)
\* the number of conversions in a run
MaxTrySets == 2

IntTexts ==
  { << >>, <<"0">>, <<"7">>, <<"-","5">>, <<"+","5">>, <<" ","5">>,
    <<"5"," ">>, <<"5","x">>, <<"x">>, <<"-">>, <<" ">>,
    <<"0","x","1","f">>, <<"0","x">>, <<"0","1","0">>, <<"0","8">>,
    <<"2","1","4","7","4","8","3","6","4","7">>,
    <<"2","1","4","7","4","8","3","6","4","8">>,
    <<"-","2","1","4","7","4","8","3","6","4","8">>,
    <<"-","2","1","4","7","4","8","3","6","4","9">>,
    <<"9","9","9","9","9","9","9","9","9","9","9">>,
    <<"9","9","9","9","9","9","9","9","9","9","9","x">>,
    <<"0","x","7","f","f","f","f","f","f","f">>,
    <<"0","x","8","0","0","0","0","0","0","0">>,
    <<"-","0","x","8","0","0","0","0","0","0","0">> }

\* after option_new_int(3); no host program runs
IntInit ==
  /\ prog = 1
  /\ pc = 1
  /\ parsers = <<ap_new>>
  /\ options = <<option_new_int(3)>>
  /\ stream = argstream_new(0, << >>)
  /\ stack = << >>
  /\ status = "parsing"
  /\ error = ""
  /\ log = << >>
  /\ map = map_new
  /\ lastSet = [k \in MapKeys |-> 0]

\* option_try_set(option, raw), err() included
IntTrySet(raw) ==
  /\ status = "parsing"
  /\ Len(log) < MaxTrySets
  /\ Becomes([TrySet(Cur, 1, raw) EXCEPT
                !.log = Append(@, [ev |-> "try_set", parser |-> 0,
                                   name |-> raw, index |-> 0])])
  /\ UNCHANGED <<prog, pc, map, lastSet>>

IntNext == \E raw \in IntTexts : IntTrySet(raw)

SpecInt == IntInit /\ [][IntNext]_vars

(***************************************************************************)
(* Integer literals, read off the text without strtol: white space, a      *)
(* sign, then 0x and hexadecimal digits, or 0 and octal digits, or decimal *)
(* digits; nothing before, between or after.                               *)
(***************************************************************************)
LiteralDigits == <<"0","1","2","3","4","5","6","7","8","9",
                   "a","b","c","d","e","f">>

\* the texts of the digits of the base
DigitsOfBase(base) == {LiteralDigits[d] : d \in 1..base}

DigitNumber(c) == (CHOOSE d \in 1..16 : LiteralDigits[d] = c) - 1

\* the text without its leading spaces
RECURSIVE Unspaced(_)
Unspaced(text) ==
  IF Len(text) >= 1 /\ text[1] = " " THEN Unspaced(Tail(text)) ELSE text

IsNegative(text) == Len(Unspaced(text)) >= 1 /\ Unspaced(text)[1] = "-"

\* the text without leading spaces and sign
Unsigned(text) ==
  IF Len(Unspaced(text)) >= 1 /\ Unspaced(text)[1] \in {"-", "+"}
    THEN Tail(Unspaced(text)) ELSE Unspaced(text)

LiteralBase(body) ==
  IF Len(body) >= 3 /\ body[1] = "0" /\ body[2] = "x" THEN 16
  ELSE IF Len(body) >= 1 /\ body[1] = "0" THEN 8
  ELSE 10

\* the digits of the literal, after the 0x of a hexadecimal one
LiteralBody(body) == IF LiteralBase(body) = 16 THEN Skip(body, 2) ELSE body

\* the whole text is an integer literal
IsLiteral(text) ==
  /\ Len(LiteralBody(Unsigned(text))) >= 1
  /\ \A j \in 1..Len(LiteralBody(Unsigned(text))) :
       LiteralBody(Unsigned(text))[j]
         \in DigitsOfBase(LiteralBase(Unsigned(text)))

\* digits without leading zeros, as numbers
RECURSIVE Significant(_)
Significant(digits) ==
  IF Len(digits) >= 1 /\ digits[1] = "0" THEN Significant(Tail(digits))
  ELSE [j \in 1..Len(digits) |-> DigitNumber(digits[j])]

\* the digits of n in the base, the most significant first
RECURSIVE Numerals(_, _)
Numerals(n, base) ==
  IF n = 0 THEN << >> ELSE Append(Numerals(n \div base, base), n % base)

\* digit strings without leading zeros, compared as numbers
RECURSIVE LexLessEq(_, _)
LexLessEq(a, b) ==
  \/ a = << >>
  \/ a[1] < b[1]
  \/ a[1] = b[1] /\ LexLessEq(Tail(a), Tail(b))

NumLessEq(a, b) == Len(a) < Len(b) \/ (Len(a) = Len(b) /\ LexLessEq(a, b))

\* the digits of the number after the one written, in the base
RECURSIVE NextNumerals(_, _)
NextNumerals(digits, base) ==
  IF digits = << >> THEN <<1>>
  ELSE IF digits[Len(digits)] < base - 1
    THEN [digits EXCEPT ![Len(digits)] = @ + 1]
  ELSE Append(NextNumerals(SubSeq(digits, 1, Len(digits) - 1), base), 0)

\* the digits of INT_MAX + 1, the magnitude of INT_MIN
MinNumerals(base) == NextNumerals(Numerals(INT_MAX, base), base)

\* the literal lies in [INT_MIN, INT_MAX]
InIntRange(neg, digits, base) ==
  \/ NumLessEq(digits, Numerals(INT_MAX, base))
  \/ neg /\ digits = MinNumerals(base)

RECURSIVE Magnitude(_, _, _)
Magnitude(digits, base, acc) ==
  IF digits = << >> THEN acc
  ELSE Magnitude(Tail(digits), base, acc * base + digits[1])

LiteralNumber(neg, digits, base) ==
  IF digits = MinNumerals(base) THEN (-INT_MAX) - 1
  ELSE IF neg THEN -Magnitude(digits, base, 0)
  ELSE Magnitude(digits, base, 0)

\* what the literal says: [inrange, value]
LiteralMeans(neg, digits, base) ==
  IF InIntRange(neg, digits, base)
    THEN [inrange |-> TRUE, value |-> LiteralNumber(neg, digits, base)]
    ELSE [inrange |-> FALSE, value |-> 0]

LiteralOf(text) ==
  LiteralMeans(IsNegative(text),
               Significant(LiteralBody(Unsigned(text))),
               LiteralBase(Unsigned(text)))


\* the raw string of the latest try_set
LastRaw == log[Len(log)].name

\* the latest try_set appended the value and left the parse running
AppendedValue(value) ==
  /\ status = "parsing"
  /\ Len(options[1].values) = Len(log)
  /\ options[1].values[Len(log)] = value
  /\ options[1].count = Len(log)

\* the latest try_set ended the program with the error and appended nothing
FatalWithout(kind) ==
  /\ status = "exit1"
  /\ error = kind
  /\ Len(options[1].values) = Len(log) - 1
  /\ options[1].count = Len(log) - 1

(***************************************************************************)
(* C20 -- Strict integer parse: try_set on an Integer option appends a     *)
(* value only when the entire raw string is an integer literal whose value *)
(* lies in [INT_MIN, INT_MAX]; a string that is not wholly a numeric       *)
(* literal (trailing garbage, or no digits at all such as the empty        *)
(* string) is a fatal UnparsableNumber error, a literal outside the range  *)
(* is a fatal OutOfRange error, and in both error cases nothing is         *)
(* appended and the occurrence count is unchanged.                         *)
(* try_str_to_int does not keep this: strtol reads nothing of the empty    *)
(* string and leaves endptr at its terminator, so 0 is appended; and the   *)
(* range test comes before the end-of-string test, so an oversized number  *)
(* followed by garbage is reported OutOfRange.                             *)
(***************************************************************************)
C20_StrictIntegerParse ==
  Len(log) >= 1 =>
    IF ~IsLiteral(LastRaw) THEN FatalWithout("UnparsableNumber")
    ELSE IF ~LiteralOf(LastRaw).inrange THEN FatalWithout("OutOfRange")
    ELSE AppendedValue(LiteralOf(LastRaw).value)

\* the empty string given after a good literal: 0 is appended, no error
C20_Witness ==
  /\ Len(log) = 2
  /\ log[1].name = <<"-", "5">>
  /\ log[2].name = << >>
  /\ options[1].values = <<-5, 0>>
  /\ options[1].count = 2
  /\ status = "parsing"

(***************************************************************************)
(* C21.  Matched-command state: for every ArgParser of the tree and at     *)
(* every point, cmd_name is set if and only if cmd_parser is set; both are *)
(* unset until ap_parse_stream runs on the parser and the first argument   *)
(* that call reads names a command of the parser's command map; when set,  *)
(* cmd_parser is the parser the map binds to cmd_name; and once set they   *)
(* are not assigned again in the parse.                                    *)
(***************************************************************************)
\* the first argument the call of ap_parse_stream on parser p read
FirstTokenOf(p) == stream.args[EntryIndex(p) + 1]

MatchedState(p) ==
  /\ ap_has_cmd(Cur, p) <=> (ap_cmd_parser(Cur, p) # NULL)
  /\ status = "setup" => ~ap_has_cmd(Cur, p)
  /\ ap_has_cmd(Cur, p) =>
       /\ EntersOf(p) # {}
       /\ EntryIndex(p) < stream.count
       /\ FirstTokenOf(p) = ap_cmd_name(Cur, p)
       /\ map_get(parsers[p].command_map, ap_cmd_name(Cur, p))
            = <<TRUE, ap_cmd_parser(Cur, p)>>

MatchedStateAll == \A p \in ParserIds : MatchedState(p)

\* a parser that has its match keeps it
MatchedOnce ==
  \A p \in ParserIds :
    (ap_has_cmd(Cur, p) \/ ap_cmd_parser(Cur, p) # NULL)
      => /\ parsers'[p].cmd_name = parsers[p].cmd_name
         /\ parsers'[p].cmd_parser = parsers[p].cmd_parser

C21_MatchedCommandState == []MatchedStateAll /\ [][MatchedOnce]_vars

\* run matched at the root, go in run's parser, nothing in go's; the command
\* name read later is a positional of go's parser
C21_Witness ==
  /\ prog = 1
  /\ status = "returned"
  /\ stream.args = <<S_run, S_go, S_go>>
  /\ ap_cmd_name(Cur, 1) = S_run /\ ap_cmd_parser(Cur, 1) = 2
  /\ ap_cmd_name(Cur, 2) = S_go /\ ap_cmd_parser(Cur, 2) = 3
  /\ ~ap_has_cmd(Cur, 3) /\ ap_cmd_parser(Cur, 3) = NULL
  /\ ap_args(Cur, 3) = <<S_go>>

\* the name registered twice is matched to the parser of the later call
C21_WitnessRebound ==
  /\ prog = 4
  /\ status = "returned"
  /\ stream.args = <<S_run, S_run>>
  /\ ap_cmd_name(Cur, 1) = S_run
  /\ ap_cmd_parser(Cur, 1) = 3

(***************************************************************************)
(* C22.  Automatic help toggle: cmd_help of a parser is false on a new     *)
(* parser, set to true by every ap_cmd on it and set to b by               *)
(* ap_cmd_help(b); the most recent of these calls decides.  With cmd_help  *)
(* false, a leading help that is not a registered command is appended to   *)
(* the positionals; with cmd_help true on a parser without commands, a     *)
(* leading help followed by any argument is a fatal UnrecognizedCommand    *)
(* error; a command registered under the name help takes precedence over   *)
(* the automatic help command.                                             *)
(***************************************************************************)
\* the calls made so far that assign cmd_help of parser p
ToggleCalls(p) ==
  {i \in Made : /\ Programs[prog][i].op \in {"ap_cmd", "ap_cmd_help"}
                /\ Programs[prog][i].p = p}

LastToggle(p) == CHOOSE i \in ToggleCalls(p) : \A j \in ToggleCalls(p) : j <= i

\* what the most recent of the calls says, false if there is none
ToggledTo(p) ==
  IF ToggleCalls(p) = {} THEN FALSE
  ELSE IF Programs[prog][LastToggle(p)].op = "ap_cmd" THEN TRUE
  ELSE Programs[prog][LastToggle(p)].x

MostRecentDecides == \A p \in ParserIds : parsers[p].cmd_help = ToggledTo(p)

HelpIsCommand(p) == map_get(parsers[p].command_map, S_help)[1]

\* cmd_help false, help no command: help is a positional of the level
ToggleOffStep ==
  (AtLeadingHelp /\ ~ToggledTo(Top(Cur).parser)
                 /\ ~HelpIsCommand(Top(Cur).parser))
    => /\ status' = "parsing"
       /\ stream'.index = stream.index + 1
       /\ Len(stack') = Len(stack)
       /\ parsers' = [parsers EXCEPT
                        ![Top(Cur).parser].positional_args = vec_add(@, S_help)]

\* cmd_help true, no command registered: help and an argument is an error
ToggleOnStep ==
  (AtLeadingHelp /\ ToggledTo(Top(Cur).parser) /\ HasFollower
                 /\ parsers[Top(Cur).parser].command_vec.count = 0)
    => /\ status' = "exit1"
       /\ error' = "UnrecognizedCommand"
       /\ parsers' = parsers
       /\ log' = log

\* help is a command: it is entered, whatever cmd_help says
HelpCommandStep ==
  (AtLeadingHelp /\ HelpIsCommand(Top(Cur).parser))
    => /\ status' = "parsing"
       /\ Len(stack') = Len(stack) + 1
       /\ stack'[Len(stack')].parser =
            map_get(parsers[Top(Cur).parser].command_map, S_help)[2]
       /\ parsers'[Top(Cur).parser].cmd_name = S_help
       /\ stream'.index = stream.index + 1

C22_AutoHelpToggle ==
  /\ []MostRecentDecides
  /\ [][ToggleOffStep /\ ToggleOnStep /\ HelpCommandStep]_vars

\* the root, where cmd_help is true, enters the command help; its parser,
\* where cmd_help is false, takes the next help for a positional
C22_Witness ==
  /\ prog = 7
  /\ status = "returned"
  /\ stream.args = <<S_help, S_help, S_run>>
  /\ parsers[1].cmd_help /\ ap_cmd_parser(Cur, 1) = 2
  /\ ~parsers[2].cmd_help
  /\ ap_args(Cur, 2) = <<S_help, S_run>>

\* run's parser has no command and cmd_help true: help x is an error
C22_WitnessNoCommands ==
  /\ prog = 7
  /\ status = "exit1"
  /\ error = "UnrecognizedCommand"
  /\ stream.args = <<S_run, S_help, <<"x">>>>
  /\ parsers[3].cmd_help
  /\ parsers[3].command_vec.count = 0
  /\ ap_count_args(Cur, 3) = 0

(***************************************************************************)
(* The parser as a sequential program: once ap_parse_array is called, the  *)
(* process takes its next step as long as it has one.  A running call of   *)
(* ap_parse_stream either finds an argument in the stream and runs its     *)
(* loop body, or finds none and returns.  The loop body is enabled exactly *)
(* when the process is parsing and the stream has an argument, since       *)
(* Branch gives every argument a branch; its weak fairness is written with *)
(* that condition in the place of ENABLED.                                 *)
(***************************************************************************)
InLoopBody == status = "parsing" /\ argstream_has_next(stream)

BodyFair == []<>(~InLoopBody) \/ []<><<InLoopBody>>_vars

SpecLive == Init /\ [][Next]_vars /\ WF_vars(LoopExit) /\ BodyFair

\* ap_parse_array came back, or the process ended in exit(0) or in err()
Terminal == status \in {"returned", "exit0", "exit1"}

\* a normal return finds the stream exhausted, an error has its kind
TerminalKinds ==
  /\ status = "returned" => (stream.index = stream.count /\ stack = << >>)
  /\ status = "exit0" => error = ""
  /\ status = "exit1" => error \in ErrorKinds

\* a pass through the loop of ap_parse_stream moves the stream on; the call
\* whose loop test fails returns
LoopAdvances ==
  status = "parsing"
    => \/ stream'.index > stream.index
       \/ /\ ~argstream_has_next(stream)
          /\ stream' = stream
          /\ Len(stack') < Len(stack)

\* the loop of ap_handle_short_opt passes once for each character of the
\* cluster: it fetches at most one value for each
ClusterAdvances ==
  (AtArg /\ NextBranch(Cur) = "short")
    => stream'.index <= stream.index + Len(argstream_next(stream))

\* the loop of the '--' branch ends with the stream
DrainAdvances ==
  (AtArg /\ NextBranch(Cur) = "separator") => stream'.index = stream.count

\* every argument takes a branch for which the loop body has a step
BranchTaken ==
  InLoopBody
    => NextBranch(Cur) \in {"separator", "long_equals", "long",
                            "dash_positional", "short_equals", "short",
                            "command", "help", "positional"}

HasEmptySlot(m) == \E i \in 1..m.capacity : m.entries[i].key = NullKey

\* the table map_set runs map_find on
SetTable(m) == IF m.count = m.max_load_threshold THEN map_grow(m) ELSE m

\* the new table of map_grow when its loop comes to the old slot j
GrowTable(m, j) == map_grow([m EXCEPT !.entries = SubSeq(@, 1, j)])

\* every table map_find may be run on has an empty slot: in map_get, in
\* map_set, and in map_grow for each old entry
ProbeSafe(m) ==
  /\ m.count # 0 => HasEmptySlot(m)
  /\ HasEmptySlot(SetTable(m))
  /\ m.count = m.max_load_threshold
       => \A j \in 0..(m.capacity - 1) :
            m.entries[j + 1].key # NullKey => HasEmptySlot(GrowTable(m, j))

AllProbesSafe ==
  \A p \in ParserIds :
    ProbeSafe(parsers[p].option_map) /\ ProbeSafe(parsers[p].command_map)

(***************************************************************************)
(* C23.  Termination: for every parser tree and every finite argument      *)
(* sequence the parse reaches a terminal state: the stream exhausted and   *)
(* ap_parse_array back, a help or version exit, or a fatal error.  Every   *)
(* pass through a loop of the recursive parse advances the stream or the   *)
(* position in a short cluster, and the table has an empty slot whenever   *)
(* map_find is run on it.                                                  *)
(***************************************************************************)
C23_Termination ==
  /\ (status = "parsing") ~> Terminal
  /\ [][LoopAdvances /\ ClusterAdvances /\ DrainAdvances]_vars
  /\ [](TerminalKinds /\ BranchTaken /\ AllProbesSafe)

\* a parse over an option map that has grown to 16 slots came back
C23_Witness ==
  /\ prog = 2
  /\ status = "returned"
  /\ parsers[1].option_map.capacity = 16
  /\ parsers[1].option_map.count = 5
  /\ stream.args = <<<<"-","v">>, <<"-","n">>, <<"5">>>>
  /\ stream.index = 3

\* a cluster of two value options read three arguments in one pass
C23_WitnessCluster ==
  /\ prog = 6
  /\ status = "returned"
  /\ stream.args = <<<<"-","a","b">>, <<"x">>, S_run>>
  /\ ap_count_args(Cur, 1) = 0

(***************************************************************************)
(* C24.  Cursor safety: throughout a parse, over all the calls of          *)
(* ap_parse_stream that share the one ArgStream, 0 <= index <= count, the  *)
(* index never decreases, and an argument is read only when index < count: *)
(* no fetch (of an option's value, in a cluster, in the '--' loop, of the  *)
(* argument of help, after the return of a command's parser) reads past    *)
(* the end of the arguments.                                               *)
(***************************************************************************)
CursorInRange ==
  /\ 0 <= stream.index
  /\ stream.index <= stream.count
  /\ stream.count = Len(stream.args)

\* the arguments a step reads are those from the old index up to the new
\* one: each of them lies before count
CursorStep ==
  status = "parsing"
    => /\ stream'.args = stream.args
       /\ stream'.count = stream.count
       /\ stream'.index >= stream.index
       /\ \A k \in stream.index..(stream'.index - 1) : k < stream.count
       /\ stream'.index > stream.index => argstream_has_next(stream)

C24_WitnessHelp ==
  /\ prog = 1
  /\ status = "exit1"
  /\ error = "MissingHelpArgument"
  /\ stream.args = <<S_run, S_help>>
  /\ stream.index = stream.count
  /\ Len(stack) = 2

(***************************************************************************)
(* The roles of the arguments, counted over the parser tree: positionals,  *)
(* matched commands, values and occurrences of options.                    *)
(***************************************************************************)
RECURSIVE TotalPositionals(_, _)
TotalPositionals(ps, n) ==
  IF n = 0 THEN 0
  ELSE TotalPositionals(ps, n - 1) + Len(ps[n].positional_args.entries)

RECURSIVE TotalCommands(_, _)
TotalCommands(ps, n) ==
  IF n = 0 THEN 0
  ELSE TotalCommands(ps, n - 1) + (IF ps[n].cmd_name # NullKey THEN 1 ELSE 0)

RECURSIVE TotalValues(_, _)
TotalValues(os, n) ==
  IF n = 0 THEN 0 ELSE TotalValues(os, n - 1) + Len(os[n].values)

RECURSIVE TotalCounts(_, _)
TotalCounts(os, n) ==
  IF n = 0 THEN 0 ELSE TotalCounts(os, n - 1) + os[n].count

\* what a step added to each
NewPositionals ==
  TotalPositionals(parsers', Len(parsers'))
    - TotalPositionals(parsers, Len(parsers))

NewCommands ==
  TotalCommands(parsers', Len(parsers')) - TotalCommands(parsers, Len(parsers))

NewValues == TotalValues(options', Len(options')) - TotalValues(options, Len(options))

NewCounts == TotalCounts(options', Len(options')) - TotalCounts(options, Len(options))

\* the number of arguments the step read
Consumed == stream'.index - stream.index

\* a is b with some of its members left out
RECURSIVE IsSubseq(_, _)
IsSubseq(a, b) ==
  IF a = << >> THEN TRUE
  ELSE IF b = << >> THEN FALSE
  ELSE IF a[1] = b[1] THEN IsSubseq(Tail(a), Tail(b))
  ELSE IsSubseq(a, Tail(b))

\* the positionals of the running level grow by the arguments given, those
\* of the other levels stay
Appends(tokens) ==
  /\ parsers'[Top(Cur).parser].positional_args.entries
       = Positionals(Top(Cur).parser) \o tokens
  /\ \A q \in ParserIds \ {Top(Cur).parser} :
       parsers'[q].positional_args = parsers[q].positional_args

\* the role of each argument a step of a parse that goes on has read, by the
\* branch of the first of them
RoleStep(b, tok) ==
  CASE b = "separator" ->
         /\ Appends(SubSeq(stream.args, stream.index + 2, stream.count))
         /\ Consumed = 1 + NewPositionals
         /\ NewCommands = 0 /\ options' = options
    [] b \in {"positional", "dash_positional"} ->
         /\ Appends(<<tok>>)
         /\ Consumed = 1
         /\ NewCommands = 0 /\ options' = options
    [] b = "command" ->
         /\ Appends(<< >>)
         /\ Consumed = 1
         /\ NewCommands = 1
         /\ parsers'[Top(Cur).parser].cmd_name = tok
         /\ options' = options
    [] b \in {"long_equals", "short_equals"} ->
         /\ Appends(<< >>)
         /\ Consumed = 1
         /\ NewCommands = 0
         /\ NewValues = 1 /\ NewCounts = 1
    [] b = "long" ->
         /\ Appends(<< >>)
         /\ Consumed = 1 + NewValues
         /\ NewCommands = 0
         /\ NewCounts = 1
    [] b = "short" ->
         /\ Appends(<< >>)
         /\ Consumed = 1 + NewValues
         /\ NewCommands = 0
         /\ NewCounts = Len(tok) - 1
    [] OTHER -> FALSE

\* a step that reads arguments and goes on gives each one role; a return
\* reads none and gives none
ConservationStep ==
  /\ (AtArg /\ status' = "parsing")
       => RoleStep(NextBranch(Cur), argstream_next(stream))
  /\ (status = "parsing" /\ ~AtArg)
       => /\ stream' = stream
          /\ parsers' = parsers
          /\ options' = options

\* the positionals of a level are arguments read so far, in their order; no
\* more arguments have a role than were read
ConservationState ==
  /\ \A p \in ParserIds :
       IsSubseq(Positionals(p), SubSeq(stream.args, 1, stream.index))
  /\ TotalPositionals(parsers, Len(parsers))
       + TotalCommands(parsers, Len(parsers)) <= stream.index
  /\ TotalPositionals(parsers, Len(parsers)) <= stream.count
  /\ status = "returned" => stream.index = stream.count

(***************************************************************************)
(* C25.  Token conservation and order: in a parse that returns normally    *)
(* every argument is read exactly once and has exactly one role: the '--'  *)
(* separator, an option, the value of an option, the name of a matched     *)
(* command, or a positional of exactly one level.  The positionals of each *)
(* level are in the order of the input, and over all levels there are no   *)
(* more of them than arguments.                                            *)
(***************************************************************************)
C25_TokenConservation == [][ConservationStep]_vars /\ []ConservationState

\* an option, its value (the name of a command, no command in that role)
\* and a positional: three arguments, one role each
C25_Witness ==
  /\ prog = 6
  /\ status = "returned"
  /\ stream.args = <<<<"-","b">>, S_run, <<"x">>>>
  /\ stream.index = 3
  /\ ap_args(Cur, 1) = <<<<"x">>>>
  /\ ~ap_has_cmd(Cur, 1)
  /\ TotalValues(options, Len(options)) = 1

\* two positionals of the parser of a command, in the order of the input
C25_WitnessOrder ==
  /\ prog = 1
  /\ status = "returned"
  /\ stream.args = <<S_run, <<"x">>, S_run>>
  /\ ap_args(Cur, 2) = <<<<"x">>, S_run>>
  /\ ap_count_args(Cur, 1) = 0

(***************************************************************************)
(* dmp.c: dump_file.  The FILE is the stream: count bytes, index of them   *)
(* read; its bytes are the digits in their order.  The stack holds the one *)
(* frame of dump_file with its parameters offset, bytes_to_read and        *)
(* line_length, which the loop updates, and the values it was called with. *)
(* The log has an entry for each call of print_line: the bytes of the      *)
(* buffer in name, the offset in index.  status is "dumping", then         *)
(* "dumped" after the break, or "trapped" if an overflow ended the         *)
(* process.                                                                *)
(* offset and bytes_to_read are ints: offset += num_bytes and              *)
(* bytes_to_read -= num_bytes overflow when the result leaves              *)
(* [INT_MIN, INT_MAX], which is undefined.  The outcomes modelled are the  *)
(* two's complement result and a trap.                                     *)
(***************************************************************************)
MaxBytes == 4

MaxLine == 3

INT_MIN == (-INT_MAX) - 1

\* a + b in int, b >= 0: the set of outcomes
IntAdd(a, b) ==
  IF a <= INT_MAX - b
    THEN {[trap |-> FALSE, value |-> a + b]}
    ELSE {[trap |-> FALSE, value |-> INT_MIN + ((b - 1) - (INT_MAX - a))],
          [trap |-> TRUE, value |-> a]}

\* a - b in int, b >= 0: the set of outcomes
IntSub(a, b) ==
  IF a >= INT_MIN + b
    THEN {[trap |-> FALSE, value |-> a - b]}
    ELSE {[trap |-> FALSE, value |-> INT_MAX - ((b - 1) - (a - INT_MIN))],
          [trap |-> TRUE, value |-> a]}

\* the frame of dump_file(file, offset, bytes_to_read, line_length)
dump_file(offset, bytes_to_read, line_length) ==
  [offset |-> offset, bytes_to_read |-> bytes_to_read,
   line_length |-> line_length,
   called |-> [offset |-> offset, bytes_to_read |-> bytes_to_read,
               line_length |-> line_length]]

max_bytes(f) ==
  IF f.bytes_to_read < 0 THEN f.line_length
  ELSE IF f.line_length < f.bytes_to_read THEN f.line_length
  ELSE f.bytes_to_read

\* the number of bytes fread(buffer, 1, max, file) reads
fread(file, max) ==
  IF max <= file.count - file.index THEN max ELSE file.count - file.index

\* the buffer after fread read num_bytes
Buffer(file, num_bytes) ==
  SubSeq(file.args, file.index + 1, file.index + num_bytes)

\* the offsets, byte counts and line lengths dump_file is called with
Offsets == {0, 5, INT_MAX - 1}

ByteCounts == {-1, -2, INT_MIN + 1} \cup 0..(MaxBytes + 1)

LineLengths == 1..MaxLine

\* a source of size bytes
FileOf(size) == [count |-> size, index |-> 0, args |-> SubSeq(Digits, 1, size)]

DumpInit ==
  /\ prog = 1
  /\ pc = 1
  /\ parsers = <<ap_new>>
  /\ options = << >>
  /\ stream \in {FileOf(size) : size \in 0..MaxBytes}
  /\ stack \in {<<dump_file(o, n, l)>> :
                  o \in Offsets, n \in ByteCounts, l \in LineLengths}
  /\ status = "dumping"
  /\ error = ""
  /\ log = << >>
  /\ map = map_new
  /\ lastSet = [k \in MapKeys |-> 0]

\* a pass through the loop in which fread read num_bytes > 0: print_line,
\* then the two assignments with the outcomes o and b
Printed(f, num_bytes, o, b) ==
  /\ log' = Append(log, [ev |-> "print_line", parser |-> 0,
                         name |-> Buffer(stream, num_bytes),
                         index |-> f.offset])
  /\ stream' = [stream EXCEPT !.index = @ + num_bytes]
  /\ stack' = <<[f EXCEPT !.offset = o.value,
                          !.bytes_to_read = IF o.trap THEN @ ELSE b.value]>>
  /\ status' = IF o.trap \/ b.trap THEN "trapped" ELSE "dumping"

DumpLine ==
  /\ status = "dumping"
  /\ fread(stream, max_bytes(stack[1])) > 0
  /\ \E o \in IntAdd(stack[1].offset, fread(stream, max_bytes(stack[1]))) :
       \E b \in IntSub(stack[1].bytes_to_read,
                       fread(stream, max_bytes(stack[1]))) :
         Printed(stack[1], fread(stream, max_bytes(stack[1])), o, b)
  /\ UNCHANGED <<prog, pc, parsers, options, error, map, lastSet>>

\* fread read nothing: break
DumpBreak ==
  /\ status = "dumping"
  /\ fread(stream, max_bytes(stack[1])) <= 0
  /\ status' = "dumped"
  /\ UNCHANGED <<prog, pc, parsers, options, stream, stack, error, log, map,
                 lastSet>>

DumpNext == DumpLine \/ DumpBreak

SpecDump == DumpInit /\ [][DumpNext]_vars

\* the frame of dump_file
Frame == stack[1]

\* the bytes of the first k lines printed, one after the other
RECURSIVE PrintedUpTo(_)
PrintedUpTo(k) == IF k = 0 THEN << >> ELSE PrintedUpTo(k - 1) \o log[k].name

PrintedBytes == PrintedUpTo(Len(log))

\* the bytes of the source
SourceBytes == stream.args

\* dump_file is over: it broke out of its loop, or the process was ended
Stopped == status \in {"dumped", "trapped"}

\* what %08x shows of the 32-bit sum a + b
Shown(a, b) == (CHOOSE r \in IntAdd(a, b) : ~r.trap).value

\* the offset of each line is the offset dump_file was given plus the bytes
\* of the lines before it
LineOffsets ==
  \A i \in 1..Len(log) :
    log[i].index = Shown(Frame.called.offset, Len(PrintedUpTo(i - 1)))

LineLengthKept ==
  \A i \in 1..Len(log) :
    Len(log[i].name) >= 1 /\ Len(log[i].name) <= Frame.called.line_length

\* the lesser of n and the size of the source
Limit(n) == IF n < stream.count THEN n ELSE stream.count

\* bytes_to_read = n >= 0
BoundedDump(n) ==
  /\ Len(PrintedBytes) <= n
  /\ PrintedBytes = SubSeq(SourceBytes, 1, Len(PrintedBytes))
  /\ Stopped => Len(PrintedBytes) = Limit(n)
  /\ (status = "dumping" /\ Len(PrintedBytes) = Limit(n))
       => fread(stream, max_bytes(Frame)) = 0

\* bytes_to_read < 0
UnboundedDump ==
  /\ PrintedBytes = SubSeq(SourceBytes, 1, Len(PrintedBytes))
  /\ Stopped => PrintedBytes = SourceBytes
  /\ Frame.bytes_to_read < 0

(***************************************************************************)
(* C26.  Hexdump read loop, as stated: dump_file with bytes_to_read = n    *)
(* >= 0 and line_length = L > 0 prints at most n bytes in total and at     *)
(* most L bytes on a line, stops as soon as n bytes are printed or the     *)
(* source is exhausted, and shows on each line the starting offset plus    *)
(* the number of bytes printed on the lines before; with n < 0 it prints   *)
(* every byte until the source is exhausted and the counter of the         *)
(* remaining bytes never becomes non-negative.                             *)
(* dump_file does not keep this for every n < 0 and every offset:          *)
(* bytes_to_read -= num_bytes goes below INT_MIN and offset += num_bytes   *)
(* above INT_MAX.  With the two's complement result the counter turns      *)
(* positive; with a trap the dump ends before the source does.             *)
(***************************************************************************)
C26_ReadLoop ==
  /\ LineLengthKept
  /\ LineOffsets
  /\ IF Frame.called.bytes_to_read >= 0
       THEN BoundedDump(Frame.called.bytes_to_read)
       ELSE UnboundedDump

\* called with a negative count, the counter has turned positive while the
\* dump goes on
C26_Witness ==
  /\ Frame.called.bytes_to_read = INT_MIN + 1
  /\ Frame.called.line_length = 3
  /\ status = "dumping"
  /\ Len(log) = 1
  /\ Frame.bytes_to_read = INT_MAX - 1

\* neither assignment of the call can leave the range of int
InIntRangeCall ==
  /\ Frame.called.offset <= INT_MAX - stream.count
  /\ Frame.called.bytes_to_read >= INT_MIN + stream.count

\* the read loop as long as no assignment overflows
C26_ReadLoopInRange == InIntRangeCall => (C26_ReadLoop /\ status # "trapped")

\* five bytes asked of a source of four, three to a line: two lines, then
\* the break
C26_WitnessInRange ==
  /\ Frame.called = [offset |-> 5, bytes_to_read |-> 5, line_length |-> 3]
  /\ status = "dumped"
  /\ stream.count = 4
  /\ Len(log) = 2
  /\ log[2].index = 8
  /\ log[2].name = <<"3">>
  /\ Frame.bytes_to_read = 1

=============================================================================
